---- MODULE Spec2Model ----
(***************************************************************************)
(* Task allocation engine of Zenith-Agent.                                 *)
(*                                                                         *)
(*   matcher    EmployeeAllocatorAgent.allocate_tasks   (agents/allocator) *)
(*   optimizer  OptimizedSuperAgent._optimize_task_allocations             *)
(*              and _calculate_employee_cost_efficiency (agents/super_agent)*)
(*                                                                         *)
(* A worker record carries the fields both phases read: the matcher's      *)
(* "id", "availability", "current_workload" and the optimizer's "_id",     *)
(* "capacity_hours_per_week", "current_workload_hours" are the model's     *)
(* id, cap, load.  A task's "estimated_hours" / "estimated_duration_hours" *)
(* is hours.  Priorities are spelled in lower case in the model; each      *)
(* phase looks them up in its own table.                                   *)
(*                                                                         *)
(* A matcher run starts with get_available_employees: it counts the        *)
(* documents of db.employees, inserts six sample records when there are    *)
(* none, and fetches the ones that are not inactive; when the database     *)
(* raises it returns two sample records instead.                           *)
(*                                                                         *)
(* Scores are Python floats in the source.  The model computes them as     *)
(* exact fractions <<numerator, denominator>> and compares them by cross   *)
(* multiplication, so two scores that are equal as fractions are equal in  *)
(* the model.                                                              *)
(***************************************************************************)
EXTENDS Integers, Sequences, FiniteSets, TLC

\* Longest employee collection and longest task list a run is given.
MaxWorkers == 2
MaxTasks == 3

Runs == {1, 2}

\* ------------------------------------------------------------------------
\* Input records

\* The employee records a collection is drawn from.  perf is the
\* performance_rating in tenths; cost is the "cost_efficiency_score" key,
\* <<>> while the record does not have it.
WorkerPool ==
  { [id |-> 1, cap |-> 4, load |-> 0, skills |-> {"Python"},
     seniority |-> "Mid", prefs |-> {"Backend"}, perf |-> 40,
     role |-> "developer", status |-> "active", cost |-> <<>>],
    [id |-> 2, cap |-> 4, load |-> 0, skills |-> {"python"},
     seniority |-> "Mid", prefs |-> {"backend"}, perf |-> 40,
     role |-> "developer", status |-> "active", cost |-> <<>>],
    [id |-> 3, cap |-> 4, load |-> 3, skills |-> {"python", "react"},
     seniority |-> "Senior", prefs |-> {}, perf |-> 50,
     role |-> "architect", status |-> "active", cost |-> <<>>],
    [id |-> 4, cap |-> 4, load |-> 2, skills |-> {},
     seniority |-> "Junior", prefs |-> {}, perf |-> 0,
     role |-> "qa_engineer", status |-> "active", cost |-> <<>>],
    [id |-> 5, cap |-> 0, load |-> 0, skills |-> {"python"},
     seniority |-> "Mid", prefs |-> {}, perf |-> 40,
     role |-> "developer", status |-> "active", cost |-> <<>>],
    [id |-> 6, cap |-> 6, load |-> 0, skills |-> {},
     seniority |-> "Junior", prefs |-> {}, perf |-> 0,
     role |-> "designer", status |-> "active", cost |-> <<>>],
    [id |-> 7, cap |-> 4, load |-> 0, skills |-> {"python"},
     seniority |-> "Mid", prefs |-> {}, perf |-> 40,
     role |-> "developer", status |-> "inactive", cost |-> <<>>] }

\* The six records _create_sample_employees inserts ("emp_001" .. "emp_006"
\* are the ids 101 .. 106).
SampleEmployees ==
  << [id |-> 101, cap |-> 40, load |-> 20,
      skills |-> {"Python", "FastAPI", "React", "TypeScript", "PostgreSQL",
                  "Docker"},
      seniority |-> "Senior", prefs |-> {"Backend", "API Development"},
      perf |-> 48, role |-> "Senior Full-Stack Developer",
      status |-> "active", cost |-> <<>>],
     [id |-> 102, cap |-> 40, load |-> 15,
      skills |-> {"React", "TypeScript", "CSS", "JavaScript", "UI/UX",
                  "Responsive Design"},
      seniority |-> "Mid", prefs |-> {"Frontend", "UI Development"},
      perf |-> 45, role |-> "Frontend Developer",
      status |-> "active", cost |-> <<>>],
     [id |-> 103, cap |-> 40, load |-> 25,
      skills |-> {"Docker", "Kubernetes", "CI/CD", "AWS", "Monitoring",
                  "Linux"},
      seniority |-> "Senior", prefs |-> {"Infrastructure", "Deployment"},
      perf |-> 47, role |-> "DevOps Engineer",
      status |-> "active", cost |-> <<>>],
     [id |-> 104, cap |-> 40, load |-> 10,
      skills |-> {"Python", "FastAPI", "PostgreSQL", "SQL",
                  "API Development"},
      seniority |-> "Mid", prefs |-> {"Backend", "Database"},
      perf |-> 43, role |-> "Backend Developer",
      status |-> "active", cost |-> <<>>],
     [id |-> 105, cap |-> 40, load |-> 12,
      skills |-> {"Testing", "pytest", "Selenium", "Test Automation",
                  "Quality Assurance"},
      seniority |-> "Mid", prefs |-> {"Testing", "Quality Assurance"},
      perf |-> 44, role |-> "QA Engineer",
      status |-> "active", cost |-> <<>>],
     [id |-> 106, cap |-> 40, load |-> 8,
      skills |-> {"JavaScript", "React", "Python", "Git", "HTML", "CSS"},
      seniority |-> "Junior", prefs |-> {"Learning", "Frontend"},
      perf |-> 40, role |-> "Junior Developer",
      status |-> "active", cost |-> <<>>] >>

\* The two records _get_sample_employees returns: in the fields the model
\* keeps they are the first two sample records.
FallbackEmployees == SubSeq(SampleEmployees, 1, 2)

\* The task records a task list is drawn from.  orig is the
\* "original_employee_id" key, 0 while the record does not have it.
TaskPool ==
  { [id |-> 1, hours |-> 2, priority |-> "high", complexity |-> "Medium",
     skills_required |-> {"Python"}, category |-> "Backend", orig |-> 0],
    [id |-> 2, hours |-> 2, priority |-> "high", complexity |-> "Medium",
     skills_required |-> {"Python"}, category |-> "Backend", orig |-> 0],
    [id |-> 3, hours |-> 3, priority |-> "medium", complexity |-> "Low",
     skills_required |-> {"python", "React"}, category |-> "Frontend",
     orig |-> 0],
    [id |-> 4, hours |-> 4, priority |-> "critical", complexity |-> "High",
     skills_required |-> {}, category |-> "Backend", orig |-> 0],
    [id |-> 5, hours |-> 1, priority |-> "low", complexity |-> "Medium",
     skills_required |-> {"react"}, category |-> "Frontend", orig |-> 0],
    [id |-> 6, hours |-> 5, priority |-> "high", complexity |-> "High",
     skills_required |-> {"Python"}, category |-> "Api", orig |-> 0] }

\* The sequences of at most n distinct elements of S.
InjSeqs(S, n) ==
  UNION { { q \in [1..k -> S] : \A a, b \in 1..k : a # b => q[a] # q[b] }
          : k \in 0..n }

Rosters == InjSeqs(WorkerPool, MaxWorkers)
TaskLists == InjSeqs(TaskPool, MaxTasks)

\* The inputs of two concurrent runs are drawn from part of the pools; the
\* second run is given the first run's list or a part of it.
ConcRosters ==
  InjSeqs({ w \in WorkerPool : w.id \in {3, 5, 7} }, MaxWorkers)
ConcTaskLists == InjSeqs({ t \in TaskPool : t.id \in {1, 3, 5} }, MaxTasks)
PartsOf(list) ==
  { SubSeq(list, a, b) : a \in 1..(Len(list) + 1), b \in 0..Len(list) }

\* ------------------------------------------------------------------------
\* Scorer (agents/allocator.py)

\* str.lower() on the tags the records use.
Lower(s) ==
  CASE s = "Python" -> "python"
    [] s = "React" -> "react"
    [] s = "Backend" -> "backend"
    [] s = "Frontend" -> "frontend"
    [] s = "Api" -> "api"
    [] s = "FastAPI" -> "fastapi"
    [] s = "TypeScript" -> "typescript"
    [] s = "PostgreSQL" -> "postgresql"
    [] s = "Docker" -> "docker"
    [] s = "CSS" -> "css"
    [] s = "JavaScript" -> "javascript"
    [] s = "UI/UX" -> "ui/ux"
    [] s = "Responsive Design" -> "responsive design"
    [] s = "Kubernetes" -> "kubernetes"
    [] s = "CI/CD" -> "ci/cd"
    [] s = "AWS" -> "aws"
    [] s = "Monitoring" -> "monitoring"
    [] s = "Linux" -> "linux"
    [] s = "SQL" -> "sql"
    [] s = "API Development" -> "api development"
    [] s = "Testing" -> "testing"
    [] s = "Selenium" -> "selenium"
    [] s = "Test Automation" -> "test automation"
    [] s = "Quality Assurance" -> "quality assurance"
    [] s = "Git" -> "git"
    [] s = "HTML" -> "html"
    [] s = "Database" -> "database"
    [] s = "Infrastructure" -> "infrastructure"
    [] s = "Deployment" -> "deployment"
    [] s = "UI Development" -> "ui development"
    [] s = "Learning" -> "learning"
    [] OTHER -> s

Min(a, b) == IF a <= b THEN a ELSE b
Max(a, b) == IF a >= b THEN a ELSE b

\* Fractions <<n, d>> with d > 0.
FracGt(a, b) == a[1] * b[2] > b[1] * a[2]
FracEq(a, b) == a[1] * b[2] = b[1] * a[2]

SeniorityLevel(s) ==
  CASE s = "Junior" -> 1 [] s = "Mid" -> 2 [] s = "Senior" -> 3 [] OTHER -> 2

ComplexityLevel(c) ==
  CASE c = "Low" -> 1 [] c = "Medium" -> 2 [] c = "High" -> 3 [] OTHER -> 2

\* A skill match that compares the tags as they are spelled.
SkillMatchCaseSensitive(employee, task) ==
  LET r == Cardinality(task.skills_required)
      matching == Cardinality(employee.skills \cap task.skills_required)
      seniority_bonus ==
        IF SeniorityLevel(employee.seniority) >= ComplexityLevel(task.complexity)
        THEN 2 ELSE 0
      preference_bonus == IF task.category \in employee.prefs THEN 3 ELSE 0
  IN  IF r = 0 THEN <<10, 20>>
      ELSE <<Min(20 * matching + (seniority_bonus + preference_bonus) * r,
                 20 * r), 20 * r>>

\* _calculate_employee_skill_match, as a fraction over 20 * |required|.
SkillMatch(employee, task) ==
  LET employee_skills == { Lower(s) : s \in employee.skills }
      required_skills == { Lower(s) : s \in task.skills_required }
      r == Cardinality(required_skills)
      matching == Cardinality(employee_skills \cap required_skills)
      seniority_bonus ==
        IF SeniorityLevel(employee.seniority) >= ComplexityLevel(task.complexity)
        THEN 2 ELSE 0
      preference_bonus ==
        IF Lower(task.category) \in { Lower(p) : p \in employee.prefs }
        THEN 3 ELSE 0
  IN  IF r = 0 THEN <<10, 20>>
      ELSE <<Min(20 * matching + (seniority_bonus + preference_bonus) * r,
                 20 * r), 20 * r>>

\* An availability that takes every employee as free.
AvailabilityIgnoringLoad(employee) == <<1, 1>>

\* _calculate_employee_availability: it reads the record's own
\* current_workload, not the run's employee_workloads.
Availability(employee) ==
  IF employee.cap > 0
  THEN <<Max(0, employee.cap - employee.load), employee.cap>>
  ELSE <<0, 1>>

RECURSIVE GCD(_, _)
GCD(a, b) == IF b = 0 THEN a ELSE GCD(b, a % b)

\* A fraction in lowest terms.
Reduce(f) ==
  LET g == GCD(f[1], f[2]) IN IF g = 0 THEN f ELSE <<f[1] \div g, f[2] \div g>>

\* _calculate_allocation_score:
\* 0.5 * skill_match + 0.3 * availability + 0.2 * performance_rating / 5.
AllocationScore(employee, task) ==
  LET sm == SkillMatch(employee, task)
      av == Availability(employee)
  IN  Reduce(<<125 * sm[1] * av[2] + 75 * av[1] * sm[2]
                 + employee.perf * sm[2] * av[2],
               250 * sm[2] * av[2]>>)

\* ------------------------------------------------------------------------
\* Matcher (EmployeeAllocatorAgent.allocate_tasks)

\* The matcher's priority and complexity tables; a key they do not hold
\* ("critical") gets the default 2.
MatcherPriority(p) ==
  CASE p = "high" -> 3 [] p = "medium" -> 2 [] p = "low" -> 1 [] OTHER -> 2

MatcherComplexity(c) ==
  CASE c = "High" -> 3 [] c = "Medium" -> 2 [] c = "Low" -> 1 [] OTHER -> 2

\* The sort key (priority, complexity), compared as Python compares tuples.
MatcherKeyGe(a, b) ==
  \/ MatcherPriority(a.priority) > MatcherPriority(b.priority)
  \/ /\ MatcherPriority(a.priority) = MatcherPriority(b.priority)
     /\ MatcherComplexity(a.complexity) >= MatcherComplexity(b.complexity)

\* sorted(tasks, key=..., reverse=True): descending and stable.
RECURSIVE MatcherSort(_)
MatcherSort(tasks) ==
  IF tasks = <<>> THEN <<>>
  ELSE LET n == Len(tasks)
           done == MatcherSort(SubSeq(tasks, 1, n - 1))
           x == tasks[n]
           k == Cardinality({ q \in 1..Len(done) : MatcherKeyGe(done[q], x) })
       IN  SubSeq(done, 1, k) \o <<x>> \o SubSeq(done, k + 1, Len(done))

\* employee_workloads = {emp["id"]: emp.get("current_workload", 0)}
InitialWorkloads(employees) ==
  [ id \in { employees[k].id : k \in 1..Len(employees) } |->
      employees[CHOOSE k \in 1..Len(employees) : employees[k].id = id].load ]

\* A capacity check that is content with a quarter of the task's hours.
HasCapacityForQuarter(employee, current_load, task) ==
  ~ (4 * (employee.cap - current_load) < task.hours)

\* A capacity check that asks for more than half the task's hours.
HasCapacityAboveHalf(employee, current_load, task) ==
  2 * (employee.cap - current_load) > task.hours

\* A capacity check that asks for the whole of the task's hours.
HasCapacityForWholeTask(employee, current_load, task) ==
  ~ (employee.cap - current_load < task.hours)

\* The capacity check of the employee loop: at least half the task's hours.
HasCapacity(employee, current_load, task) ==
  ~ (2 * (employee.cap - current_load) < task.hours)

\* The employee loop after its first k employees: best_employee (its
\* position in the list, 0 for None) and best_score.
RECURSIVE BestUpTo(_, _, _, _)
BestUpTo(employees, workloads, task, k) ==
  IF k = 0 THEN [emp |-> 0, score |-> <<0, 1>>]
  ELSE LET prev == BestUpTo(employees, workloads, task, k - 1)
           employee == employees[k]
           score == AllocationScore(employee, task)
       IN  IF ~ HasCapacity(employee, workloads[employee.id], task) THEN prev
           ELSE IF FracGt(score, prev.score)
                THEN [emp |-> k, score |-> score]
                ELSE prev

\* A choice that takes the first employee with the capacity, whatever
\* the scores.
BestEmployeeFirstEligible(employees, workloads, task) ==
  LET eligible == { k \in 1..Len(employees) :
                      HasCapacity(employees[k], workloads[employees[k].id],
                                  task) }
  IN  IF eligible = {} THEN [emp |-> 0, score |-> <<0, 1>>]
      ELSE LET k == CHOOSE q \in eligible : \A p \in eligible : q <= p
           IN  [emp |-> k, score |-> AllocationScore(employees[k], task)]

BestEmployee(employees, workloads, task) ==
  BestUpTo(employees, workloads, task, Len(employees))

\* A threshold that lets a score of exactly 0.3 through.
AcceptableAtThreshold(best) ==
  best.emp # 0 /\ ~ FracGt(<<3, 10>>, best.score)

\* if best_employee and best_score > 0.3
Acceptable(best) == best.emp # 0 /\ FracGt(best.score, <<3, 10>>)

\* The allocation record; start_date is datetime.now(), read off the clock.
AllocationRecord(task, employee, score, now) ==
  [task_id |-> task.id, employee_id |-> employee.id,
   allocation_score |-> score, estimated_hours |-> task.hours,
   priority |-> task.priority, start_date |-> now]

\* An assignment that leaves employee_workloads as it was.
AssignWithoutLedger(M, best, task, now) ==
  LET employee == M.employees[best.emp]
  IN  [M EXCEPT
         !.allocations =
            Append(@, AllocationRecord(task, employee, best.score, now))]

\* An assignment that also adds the hours to the employee record itself.
AssignWritingRecord(M, best, task, now) ==
  LET employee == M.employees[best.emp]
  IN  [M EXCEPT
         !.allocations =
            Append(@, AllocationRecord(task, employee, best.score, now)),
         !.workloads[employee.id] = @ + task.hours,
         !.employees[best.emp].load = @ + task.hours]

\* The matcher's state inside the task loop: the employee records, the
\* run's employee_workloads, allocations and unallocated_tasks.
\* Assign: the record is appended and the hours go to employee_workloads.
Assign(M, best, task, now) ==
  LET employee == M.employees[best.emp]
  IN  [M EXCEPT
         !.allocations =
            Append(@, AllocationRecord(task, employee, best.score, now)),
         !.workloads[employee.id] = @ + task.hours]

\* A rejection that forgets the task.
RejectDropping(M, task) == M

\* Reject: the task goes to unallocated_tasks.
Reject(M, task) == [M EXCEPT !.unallocated = Append(@, task)]

\* One pass of the task loop.
MatchStep(M, task, now) ==
  LET best == BestEmployee(M.employees, M.workloads, task)
  IN  IF Acceptable(best) THEN Assign(M, best, task, now)
      ELSE Reject(M, task)

\* A status that counts nine tenths of the capacity as fully utilized.
UtilizationStatusFromNineTenths(hours, cap) ==
  IF cap > 0 /\ hours > cap THEN "overloaded"
  ELSE IF cap > 0 /\ 10 * hours >= 9 * cap THEN "fully_utilized"
  ELSE "available"

\* _calculate_employee_utilization: one entry per employee of the list.
UtilizationStatus(hours, cap) ==
  IF cap > 0 /\ hours > cap THEN "overloaded"
  ELSE IF cap > 0 /\ 10 * hours > 9 * cap THEN "fully_utilized"
  ELSE "available"

EmployeeUtilization(employees, workloads) ==
  [ k \in 1..Len(employees) |->
      [employee_id |-> employees[k].id,
       total_capacity |-> employees[k].cap,
       allocated_hours |-> workloads[employees[k].id],
       status |-> UtilizationStatus(workloads[employees[k].id],
                                    employees[k].cap)] ]

\* The dictionary allocate_tasks returns; keys holds the keys it has, and a
\* key it lacks reads as the empty list.
CompletedResult(tasks, M) ==
  [status |-> "completed", error |-> "",
   keys |-> {"agent", "allocation_summary", "allocations",
             "unallocated_tasks", "employee_utilization", "status"},
   total_tasks |-> Len(tasks),
   allocations |-> M.allocations,
   unallocated_tasks |-> M.unallocated,
   employee_utilization |-> EmployeeUtilization(M.employees, M.workloads)]

FailedResult(error) ==
  [status |-> "failed", error |-> error,
   keys |-> {"agent", "error", "status"},
   total_tasks |-> 0,
   allocations |-> <<>>, unallocated_tasks |-> <<>>,
   employee_utilization |-> <<>>]

NoEmployeesError == "No employees available for task allocation"

\* if not employees
NoEmployees(employees) == employees = <<>>

\* ------------------------------------------------------------------------
\* Optimizer (OptimizedSuperAgent, agents/super_agent.py)

\* role_cost_multiplier, in tenths; 1.0 for a role it does not hold.
RoleCostMultiplier(role) ==
  CASE role = "developer" -> 10
    [] role = "designer" -> 12
    [] role = "product_manager" -> 15
    [] role = "architect" -> 20
    [] role = "qa_engineer" -> 8
    [] role = "devops_engineer" -> 13
    [] role = "data_scientist" -> 18
    [] OTHER -> 10

\* A cost score that charges for skills where the code rewards them.
CostEfficiencyChargingSkills(emp) ==
  LET availability_bonus == Max(0, emp.cap - emp.load)
      skills_bonus == Min(Cardinality(emp.skills), 5)
      efficiency_score ==
        RoleCostMultiplier(emp.role) * emp.cap
          - 10 * availability_bonus + skills_bonus * emp.cap
  IN  <<Max(emp.cap, efficiency_score), 10 * emp.cap>>

\* The score _calculate_employee_cost_efficiency gives one employee whose
\* capacity is not 0, as a fraction over 10 * cap:
\* max(0.1, multiplier - max(0, (100 - workload_pct) / 100)
\*                     - min(len(skills) / 10, 0.5)).
CostEfficiency(emp) ==
  LET availability_bonus == Max(0, emp.cap - emp.load)
      skills_bonus == Min(Cardinality(emp.skills), 5)
      efficiency_score ==
        RoleCostMultiplier(emp.role) * emp.cap
          - 10 * availability_bonus - skills_bonus * emp.cap
  IN  <<Max(emp.cap, efficiency_score), 10 * emp.cap>>

\* The division by capacity_hours_per_week raises ZeroDivisionError.
CostRaises(emp) == emp.cap = 0

\* The position of the first employee the loop raises on, 0 when none.
FirstRaising(employees) ==
  IF \E k \in 1..Len(employees) : CostRaises(employees[k])
  THEN CHOOSE k \in 1..Len(employees) :
         /\ CostRaises(employees[k])
         /\ \A q \in 1..(k - 1) : ~ CostRaises(employees[q])
  ELSE 0

\* The loop of _calculate_employee_cost_efficiency over the first n
\* employees: each record gets its cost_efficiency_score, in place.
AnnotateCosts(employees, n) ==
  [ k \in 1..Len(employees) |->
      IF k <= n THEN [employees[k] EXCEPT !.cost = CostEfficiency(employees[k])]
      ELSE employees[k] ]

\* sorted(employees, key=cost_efficiency_score): ascending and stable.
RECURSIVE SortByCost(_)
SortByCost(employees) ==
  IF employees = <<>> THEN <<>>
  ELSE LET n == Len(employees)
           done == SortByCost(SubSeq(employees, 1, n - 1))
           x == employees[n]
           k == Cardinality({ q \in 1..Len(done) :
                                ~ FracGt(done[q].cost, x.cost) })
       IN  SubSeq(done, 1, k) \o <<x>> \o SubSeq(done, k + 1, Len(done))

\* "Collect all tasks": every task of every allocation, in order, each
\* task record given its original_employee_id in place.
AnnotateTasks(alloc) ==
  [alloc EXCEPT !.tasks =
     [ k \in 1..Len(alloc.tasks) |->
         [alloc.tasks[k] EXCEPT !.orig = alloc.employee_id] ]]

AnnotateAllocations(allocations) ==
  [ a \in 1..Len(allocations) |-> AnnotateTasks(allocations[a]) ]

RECURSIVE Flatten(_)
Flatten(allocations) ==
  IF allocations = <<>> THEN <<>>
  ELSE allocations[1].tasks \o Flatten(Tail(allocations))

\* priority_order; 2 for a priority it does not hold.
PriorityOrder(p) ==
  CASE p = "critical" -> 0 [] p = "high" -> 1 [] p = "medium" -> 2
    [] p = "low" -> 3 [] OTHER -> 2

\* A sort key of the priority alone.
OptimizerKeyLeByPriority(a, b) ==
  PriorityOrder(a.priority) <= PriorityOrder(b.priority)

\* The sort key (priority_order, -estimated_duration_hours).
OptimizerKeyLe(a, b) ==
  \/ PriorityOrder(a.priority) < PriorityOrder(b.priority)
  \/ /\ PriorityOrder(a.priority) = PriorityOrder(b.priority)
     /\ (0 - a.hours) <= (0 - b.hours)

\* all_tasks.sort(key=...): ascending and stable.
RECURSIVE OptimizerSort(_)
OptimizerSort(tasks) ==
  IF tasks = <<>> THEN <<>>
  ELSE LET n == Len(tasks)
           done == OptimizerSort(SubSeq(tasks, 1, n - 1))
           x == tasks[n]
           k == Cardinality({ q \in 1..Len(done) : OptimizerKeyLe(done[q], x) })
       IN  SubSeq(done, 1, k) \o <<x>> \o SubSeq(done, k + 1, Len(done))

RECURSIVE SumHours(_)
SumHours(tasks) ==
  IF tasks = <<>> THEN 0 ELSE tasks[1].hours + SumHours(Tail(tasks))

\* employee_assignments is a dictionary in insertion order: a sequence of
\* entries [employee_id, tasks, total_estimated_hours].
Assigned(assignments, emp_id) ==
  \E a \in 1..Len(assignments) : assignments[a].employee_id = emp_id

EntryOf(assignments, emp_id) ==
  CHOOSE a \in 1..Len(assignments) : assignments[a].employee_id = emp_id

\* current_hours: the hours of the tasks the employee holds in this pass.
CurrentHours(assignments, emp_id) ==
  IF Assigned(assignments, emp_id)
  THEN SumHours(assignments[EntryOf(assignments, emp_id)].tasks)
  ELSE 0

\* A capacity check that lets a task go only to the employee the handed
\* allocation had it with.
FitsOnlyOriginal(emp, current_hours, task) ==
  /\ task.orig = emp.id
  /\ current_hours + task.hours <= emp.cap - emp.load

\* A capacity check that wants an hour left over.
FitsWithRoomLeft(emp, current_hours, task) ==
  current_hours + task.hours < emp.cap - emp.load

\* A capacity check that forgets the hours the employee started with.
FitsIgnoringWorkload(emp, current_hours, task) ==
  current_hours + task.hours <= emp.cap

\* if current_hours + task hours <= capacity - current_workload
Fits(emp, current_hours, task) ==
  current_hours + task.hours <= emp.cap - emp.load

\* A cost without the consolidation bonus.
AdjustedCostWithoutBonus(emp, assignments) == emp.cost

\* cost_score, with the consolidation bonus for an employee that already
\* holds an assignment.
AdjustedCost(emp, assignments) ==
  IF Assigned(assignments, emp.id)
  THEN <<7 * emp.cost[1], 10 * emp.cost[2]>>
  ELSE emp.cost

\* The employee loop after its first k employees: best_employee (its
\* position, 0 for None) and min_cost_score (<<>> for infinity).
RECURSIVE CheapestUpTo(_, _, _, _)
CheapestUpTo(employees, assignments, task, k) ==
  IF k = 0 THEN [emp |-> 0, cost |-> <<>>]
  ELSE LET prev == CheapestUpTo(employees, assignments, task, k - 1)
           emp == employees[k]
           cost_score == AdjustedCost(emp, assignments)
       IN  IF ~ Fits(emp, CurrentHours(assignments, emp.id), task) THEN prev
           ELSE IF prev.emp = 0 \/ FracGt(prev.cost, cost_score)
                THEN [emp |-> k, cost |-> cost_score]
                ELSE prev

CheapestEmployee(employees, assignments, task) ==
  CheapestUpTo(employees, assignments, task, Len(employees))

\* An assignment that opens a new entry for every task.
AssignTaskInNewEntry(assignments, emp, task) ==
  Append(assignments,
         [employee_id |-> emp.id, tasks |-> <<task>>,
          total_estimated_hours |-> task.hours])

\* An assignment that appends the task and leaves the total as it was.
AssignTaskWithoutTotal(assignments, emp, task) ==
  LET with == IF Assigned(assignments, emp.id) THEN assignments
              ELSE Append(assignments,
                          [employee_id |-> emp.id, tasks |-> <<>>,
                           total_estimated_hours |-> 0])
      a == EntryOf(with, emp.id)
  IN  [with EXCEPT ![a].tasks = Append(@, task)]

\* "Assign task to best employee".
AssignTask(assignments, emp, task) ==
  LET with == IF Assigned(assignments, emp.id) THEN assignments
              ELSE Append(assignments,
                          [employee_id |-> emp.id, tasks |-> <<>>,
                           total_estimated_hours |-> 0])
      a == EntryOf(with, emp.id)
  IN  [with EXCEPT ![a].tasks = Append(@, task),
                   ![a].total_estimated_hours = @ + task.hours]

\* One pass of the task loop: a task no employee can hold is left out.
OptimizeStep(employees, assignments, task) ==
  LET best == CheapestEmployee(employees, assignments, task)
  IN  IF best.emp # 0 THEN AssignTask(assignments, employees[best.emp], task)
      ELSE assignments

\* The task loop run over the first k sorted tasks without interruption.
RECURSIVE MatchAll(_, _, _, _)
MatchAll(M, sorted_tasks, k, now) ==
  IF k = 0 THEN M
  ELSE MatchStep(MatchAll(M, sorted_tasks, k - 1, now), sorted_tasks[k], now)

\* The optimizer's task loop run over the first k tasks of all_tasks.
RECURSIVE OptimizeAll(_, _, _)
OptimizeAll(employees, sorted_tasks, k) ==
  IF k = 0 THEN <<>>
  ELSE OptimizeStep(employees, OptimizeAll(employees, sorted_tasks, k - 1),
                    sorted_tasks[k])

\* ------------------------------------------------------------------------
\* What the optimizer is handed

\* The employee ids of a list of matcher allocation records, each once, in
\* the order of their first record.
RECURSIVE EmployeeOrder(_)
EmployeeOrder(allocations) ==
  IF allocations = <<>> THEN <<>>
  ELSE LET n == Len(allocations)
           before == EmployeeOrder(SubSeq(allocations, 1, n - 1))
           id == allocations[n].employee_id
       IN  IF \E k \in 1..Len(before) : before[k] = id THEN before
           ELSE Append(before, id)

\* The input tasks the matcher gave to one employee, in allocation order.
RECURSIVE TasksGivenTo(_, _, _)
TasksGivenTo(allocations, emp_id, tasks) ==
  IF allocations = <<>> THEN <<>>
  ELSE LET rest == TasksGivenTo(Tail(allocations), emp_id, tasks)
           a == allocations[1]
       IN  IF a.employee_id = emp_id
           THEN <<tasks[CHOOSE k \in 1..Len(tasks) : tasks[k].id = a.task_id]>>
                  \o rest
           ELSE rest

\* The matcher's output as the map worker -> allocation of the design.
GroupByEmployee(allocations, tasks) ==
  LET order == EmployeeOrder(allocations)
  IN  [ k \in 1..Len(order) |->
          [employee_id |-> order[k],
           tasks |-> TasksGivenTo(allocations, order[k], tasks)] ]

\* What employee_allocator.process may answer: here, every task in one
\* allocation, for the first employee of the list.
AgentAllocations(tasks, employees) ==
  IF tasks = <<>> \/ employees = <<>> THEN <<>>
  ELSE << [employee_id |-> employees[1].id, tasks |-> tasks] >>

\* ------------------------------------------------------------------------
\* State

VARIABLES
  collection,  \* the documents of db.employees, in order
  db_up,       \* whether the database answers
  employee_count, \* employee_count[r]: the count run r read, -1 before
  roster,      \* roster[r]: the list get_available_employees returned
  tasks,       \* tasks[r]: the task list run r is given
  pc,          \* pc[r]: where run r is
  clock,       \* the time datetime.now() reads
  started,     \* started[r]: the time run r read when it started
  emps,        \* emps[r]: the run's employee records
  sorted,      \* sorted[r]: sorted_tasks
  i,           \* i[r]: the position of the matcher's task loop
  ledger,      \* ledger[k]: an employee_workloads dictionary
  allocs,      \* allocs[r]: allocations
  unalloc,     \* unalloc[r]: unallocated_tasks
  mres,        \* mres[r]: what allocate_tasks returned
  src,         \* src[r]: where the optimizer's allocations came from
  initial,     \* initial[r]: the allocations handed to the optimizer
  cemps,       \* cemps[r]: cost_efficient_employees
  all_tasks,   \* all_tasks[r]
  j,           \* j[r]: the position of the optimizer's task loop
  assign,      \* assign[k]: an employee_assignments dictionary
  optimized,   \* optimized[r]: what _optimize_task_allocations returned
  state,       \* the state dictionary the workflow's nodes pass on
  processing_results \* the documents of db.processing_results, in order

vars == <<collection, db_up, employee_count, roster, tasks, pc, clock,
          started, emps, sorted, i, ledger, allocs,
          unalloc, mres, src, initial, cemps, all_tasks, j, assign, optimized,
          state, processing_results>>

storeVars == <<collection, db_up, employee_count, roster>>
matcherVars == <<sorted, i, ledger, allocs, unalloc, mres, started, clock>>
optimizerVars == <<src, initial, cemps, all_tasks, j, assign, optimized>>

\* One dictionary for every run, as a module-level cache would be.
LedgerOfShared(r) == 1
AssignmentsOfShared(r) == 1

\* employee_workloads and employee_assignments are locals of one call:
\* each run has its own.
LedgerOf(r) == r
AssignmentsOf(r) == r

\* No call has returned yet.
NoResult == [FailedResult("") EXCEPT !.status = "none", !.keys = {}]

InitCommon ==
  /\ employee_count = [r \in Runs |-> -1]
  /\ roster = [r \in Runs |-> <<>>]
  /\ clock = 0
  /\ started = [r \in Runs |-> 0]
  /\ emps = [r \in Runs |-> <<>>]
  /\ sorted = [r \in Runs |-> <<>>]
  /\ i = [r \in Runs |-> 1]
  /\ ledger = [k \in Runs |-> <<>>]
  /\ allocs = [r \in Runs |-> <<>>]
  /\ unalloc = [r \in Runs |-> <<>>]
  /\ mres = [r \in Runs |-> NoResult]
  /\ src = [r \in Runs |-> "none"]
  /\ initial = [r \in Runs |-> <<>>]
  /\ cemps = [r \in Runs |-> <<>>]
  /\ all_tasks = [r \in Runs |-> <<>>]
  /\ j = [r \in Runs |-> 1]
  /\ assign = [k \in Runs |-> <<>>]
  /\ optimized = [r \in Runs |-> <<>>]
  /\ state = [node |-> "none"]
  /\ processing_results = <<>>

\* One run.  A database that does not answer shows none of its documents.
Init ==
  /\ \/ db_up = TRUE /\ collection \in Rosters
     \/ db_up = FALSE /\ collection = <<>>
  /\ \E ts \in TaskLists : tasks = [r \in Runs |-> IF r = 1 THEN ts ELSE <<>>]
  /\ pc = [r \in Runs |-> IF r = 1 THEN "start" ELSE "idle"]
  /\ InitCommon

\* ------------------------------------------------------------------------
\* Matcher actions

\* get_available_employees, the count: count_documents({}).
CountEmployees(r) ==
  /\ pc[r] = "start"
  /\ db_up
  /\ employee_count' = [employee_count EXCEPT ![r] = Len(collection)]
  /\ pc' = [pc EXCEPT ![r] = IF Len(collection) = 0 THEN "seed" ELSE "find"]
  /\ UNCHANGED <<collection, db_up, roster, tasks, emps>>
  /\ UNCHANGED matcherVars
  /\ UNCHANGED optimizerVars
  /\ UNCHANGED <<state, processing_results>>

\* _create_sample_employees: insert_many of the six sample records.
CreateSampleEmployees(r) ==
  /\ pc[r] = "seed"
  /\ collection' = collection \o SampleEmployees
  /\ pc' = [pc EXCEPT ![r] = "find"]
  /\ UNCHANGED <<db_up, employee_count, roster, tasks, emps>>
  /\ UNCHANGED matcherVars
  /\ UNCHANGED optimizerVars
  /\ UNCHANGED <<state, processing_results>>

\* find({"status": {"$ne": "inactive"}})
NotInactive(employee) == employee.status # "inactive"

ActiveEmployees(documents) == SelectSeq(documents, NotInactive)

\* get_available_employees, the fetch.
FindEmployees(r) ==
  /\ pc[r] = "find"
  /\ roster' = [roster EXCEPT ![r] = ActiveEmployees(collection)]
  /\ pc' = [pc EXCEPT ![r] = "fetched"]
  /\ UNCHANGED <<collection, db_up, employee_count, tasks, emps>>
  /\ UNCHANGED matcherVars
  /\ UNCHANGED optimizerVars
  /\ UNCHANGED <<state, processing_results>>

\* get_available_employees when the database raises: the handler returns
\* _get_sample_employees().
FetchFails(r) ==
  /\ pc[r] = "start"
  /\ ~ db_up
  /\ roster' = [roster EXCEPT ![r] = FallbackEmployees]
  /\ pc' = [pc EXCEPT ![r] = "fetched"]
  /\ UNCHANGED <<collection, db_up, employee_count, tasks, emps>>
  /\ UNCHANGED matcherVars
  /\ UNCHANGED optimizerVars
  /\ UNCHANGED <<state, processing_results>>

\* allocate_tasks with no employee: the exception, caught, a failed result.
MatcherNoWorkers(r) ==
  /\ pc[r] = "fetched"
  /\ NoEmployees(roster[r])
  /\ clock' = clock + 1
  /\ started' = [started EXCEPT ![r] = clock + 1]
  /\ emps' = [emps EXCEPT ![r] = roster[r]]
  /\ mres' = [mres EXCEPT ![r] = FailedResult(NoEmployeesError)]
  /\ pc' = [pc EXCEPT ![r] = "m_failed"]
  /\ UNCHANGED <<storeVars, tasks, sorted, i,
                 ledger, allocs, unalloc>>
  /\ UNCHANGED optimizerVars
  /\ UNCHANGED <<state, processing_results>>

\* allocate_tasks up to its task loop.
MatcherStart(r) ==
  /\ pc[r] = "fetched"
  /\ ~ NoEmployees(roster[r])
  /\ clock' = clock + 1
  /\ started' = [started EXCEPT ![r] = clock + 1]
  /\ emps' = [emps EXCEPT ![r] = roster[r]]
  /\ sorted' = [sorted EXCEPT ![r] = MatcherSort(tasks[r])]
  /\ ledger' = [ledger EXCEPT ![LedgerOf(r)] = InitialWorkloads(roster[r])]
  /\ allocs' = [allocs EXCEPT ![r] = <<>>]
  /\ unalloc' = [unalloc EXCEPT ![r] = <<>>]
  /\ i' = [i EXCEPT ![r] = 1]
  /\ pc' = [pc EXCEPT ![r] = "match"]
  /\ UNCHANGED <<storeVars, tasks, mres>>
  /\ UNCHANGED optimizerVars
  /\ UNCHANGED <<state, processing_results>>

MatcherState(r) ==
  [employees |-> emps[r], workloads |-> ledger[LedgerOf(r)],
   allocations |-> allocs[r], unallocated |-> unalloc[r]]

\* One pass of the task loop.
MatchTask(r) ==
  /\ pc[r] = "match"
  /\ i[r] <= Len(sorted[r])
  /\ LET N == MatchStep(MatcherState(r), sorted[r][i[r]], started[r])
     IN  /\ emps' = [emps EXCEPT ![r] = N.employees]
         /\ ledger' = [ledger EXCEPT ![LedgerOf(r)] = N.workloads]
         /\ allocs' = [allocs EXCEPT ![r] = N.allocations]
         /\ unalloc' = [unalloc EXCEPT ![r] = N.unallocated]
  /\ i' = [i EXCEPT ![r] = @ + 1]
  /\ UNCHANGED <<storeVars, tasks, pc, clock, started, sorted, mres>>
  /\ UNCHANGED optimizerVars
  /\ UNCHANGED <<state, processing_results>>

\* After the loop: the summary, the utilization report, the return.
MatcherFinish(r) ==
  /\ pc[r] = "match"
  /\ i[r] > Len(sorted[r])
  /\ mres' = [mres EXCEPT ![r] = CompletedResult(tasks[r], MatcherState(r))]
  /\ pc' = [pc EXCEPT ![r] = "matched"]
  /\ UNCHANGED <<storeVars, tasks, clock, started, emps, sorted, i, ledger,
                 allocs, unalloc>>
  /\ UNCHANGED optimizerVars
  /\ UNCHANGED <<state, processing_results>>

\* ------------------------------------------------------------------------
\* Optimizer actions (_run_optimized_allocator)

\* The allocations the optimizer may be handed: the matcher's, grouped by
\* worker, or the allocator agent's.
Supplied(source, r) ==
  IF source = "matcher"
  THEN GroupByEmployee(mres[r].allocations, tasks[r])
  ELSE AgentAllocations(tasks[r], emps[r])

Sources(r) == {"matcher", "agent"}

\* The cost loop raises on an employee of capacity 0: the records before
\* it keep their score, the handler catches, nothing is optimized.
OptimizerCostFails(r) ==
  /\ pc[r] = "matched"
  /\ FirstRaising(emps[r]) # 0
  /\ emps' = [emps EXCEPT ![r] = AnnotateCosts(@, FirstRaising(@) - 1)]
  /\ pc' = [pc EXCEPT ![r] = "opt_failed"]
  /\ UNCHANGED <<storeVars, tasks>>
  /\ UNCHANGED matcherVars
  /\ UNCHANGED optimizerVars
  /\ UNCHANGED <<state, processing_results>>

\* _optimize_task_allocations handed no allocation returns it as it is.
OptimizerEmpty(r) ==
  /\ pc[r] = "matched"
  /\ FirstRaising(emps[r]) = 0
  /\ \E source \in Sources(r) :
       /\ Supplied(source, r) = <<>>
       /\ src' = [src EXCEPT ![r] = source]
  /\ emps' = [emps EXCEPT ![r] = AnnotateCosts(@, Len(@))]
  /\ cemps' = [cemps EXCEPT ![r] = SortByCost(AnnotateCosts(emps[r], Len(emps[r])))]
  /\ optimized' = [optimized EXCEPT ![r] = <<>>]
  /\ pc' = [pc EXCEPT ![r] = "done"]
  /\ UNCHANGED <<storeVars, tasks, initial, all_tasks, j, assign>>
  /\ UNCHANGED matcherVars
  /\ UNCHANGED <<state, processing_results>>

\* The cost scores, the sorted employees, the collected and sorted tasks.
OptimizerStart(r) ==
  /\ pc[r] = "matched"
  /\ FirstRaising(emps[r]) = 0
  /\ \E source \in Sources(r) :
       /\ Supplied(source, r) # <<>>
       /\ src' = [src EXCEPT ![r] = source]
       /\ initial' = [initial EXCEPT ![r] =
                        AnnotateAllocations(Supplied(source, r))]
  /\ emps' = [emps EXCEPT ![r] = AnnotateCosts(@, Len(@))]
  /\ cemps' = [cemps EXCEPT ![r] = SortByCost(AnnotateCosts(emps[r], Len(emps[r])))]
  /\ all_tasks' = [all_tasks EXCEPT ![r] = OptimizerSort(Flatten(initial'[r]))]
  /\ assign' = [assign EXCEPT ![AssignmentsOf(r)] = <<>>]
  /\ j' = [j EXCEPT ![r] = 1]
  /\ pc' = [pc EXCEPT ![r] = "optimize"]
  /\ UNCHANGED <<storeVars, tasks, optimized>>
  /\ UNCHANGED matcherVars
  /\ UNCHANGED <<state, processing_results>>

\* One pass of the task loop.
OptimizeTask(r) ==
  /\ pc[r] = "optimize"
  /\ j[r] <= Len(all_tasks[r])
  /\ assign' = [assign EXCEPT ![AssignmentsOf(r)] =
                  OptimizeStep(cemps[r], @, all_tasks[r][j[r]])]
  /\ j' = [j EXCEPT ![r] = @ + 1]
  /\ UNCHANGED <<storeVars, tasks, pc, emps, src, initial, cemps, all_tasks,
                 optimized>>
  /\ UNCHANGED matcherVars
  /\ UNCHANGED <<state, processing_results>>

\* "Create final allocations": the entries, in insertion order.
OptimizerFinish(r) ==
  /\ pc[r] = "optimize"
  /\ j[r] > Len(all_tasks[r])
  /\ optimized' = [optimized EXCEPT ![r] = assign[AssignmentsOf(r)]]
  /\ pc' = [pc EXCEPT ![r] = "done"]
  /\ UNCHANGED <<storeVars, tasks, emps, src, initial, cemps, all_tasks, j,
                 assign>>
  /\ UNCHANGED matcherVars
  /\ UNCHANGED <<state, processing_results>>

Step(r) ==
  \/ CountEmployees(r)
  \/ CreateSampleEmployees(r)
  \/ FindEmployees(r)
  \/ FetchFails(r)
  \/ MatcherNoWorkers(r)
  \/ MatcherStart(r)
  \/ MatchTask(r)
  \/ MatcherFinish(r)
  \/ OptimizerCostFails(r)
  \/ OptimizerEmpty(r)
  \/ OptimizerStart(r)
  \/ OptimizeTask(r)
  \/ OptimizerFinish(r)

Next == \E r \in Runs : Step(r)

Spec == Init /\ [][Next]_vars

\* Two runs over the same roster, in any interleaving of their loop passes.
InitConc ==
  /\ \/ db_up = TRUE /\ collection \in ConcRosters
     \/ db_up = FALSE /\ collection = <<>>
  /\ \E first \in ConcTaskLists : \E second \in PartsOf(first) :
       tasks = [r \in Runs |-> IF r = 1 THEN first ELSE second]
  /\ pc = [r \in Runs |-> "start"]
  /\ InitCommon

SpecConc == InitConc /\ [][Next]_vars

\* ------------------------------------------------------------------------
\* Orchestrator (OptimizedSuperAgent.process_requirement and the nodes of
\* its workflow, agents/super_agent.py)

\* What db.users may hold for the organization, what the requirement's
\* priority may be, and what the classifier may answer.
OrgRosters == InjSeqs({ w \in WorkerPool : w.id \in {1, 3, 5} }, MaxWorkers)
RequirementPriorities == {"high", "low"}
Classifications ==
  { [classification |-> c, estimated_hours |-> 2, required_skills |-> s] :
      c \in {"simple", "complex"}, s \in {{}, {"React"}} }

\* classification_details when the classifier failed or raised.
DefaultClassification ==
  [classification |-> "complex", estimated_hours |-> 4,
   required_skills |-> {"General development"}]

\* What an agent's response.data.get(...) may hold: nothing, an empty
\* document, a document.
Documents == {"None", "empty", "document"}

\* not value
Falsy(value) == value \in {"None", "empty"}

\* How a call to an agent or to the database ends.
Outcomes == {"success", "failed", "raised"}

\* The state of everything the allocator and the optimizer work on.
allocatorVars ==
  <<collection, db_up, employee_count, roster, tasks, pc, emps,
    matcherVars, optimizerVars>>

\* The keys a node reads with a default before any node wrote them.
NoEmailResults == [status |-> "None", total_emails |-> 0]
NoClassification ==
  [classification |-> "None", estimated_hours |-> 4, required_skills |-> {}]

\* initial_state
InitialState(priority) ==
  [node |-> "fetch_org_data",
   requirement |-> priority,
   org_data |-> "None",
   employees |-> <<>>,
   task_complexity |-> "None",
   classification_details |-> NoClassification,
   feature_spec |-> "None",
   architecture |-> "None",
   task_allocations |-> <<>>,
   email_results |-> NoEmailResults,
   errors |-> <<>>,
   success |-> TRUE]

\* state["errors"].append(...); state["success"] = False
Fail(st, message) ==
  [st EXCEPT !.errors = Append(@, message), !.success = FALSE]

\* state["errors"].append(...)
Note(st, message) == [st EXCEPT !.errors = Append(@, message)]

\* The edge out of a node.
Goto(st, node) == [st EXCEPT !.node = node]

\* _calculate_employee_cost_efficiency on state["employees"]: the records
\* get their score in place, as far as the loop got.
WithCosts(st) ==
  [st EXCEPT !.employees =
     AnnotateCosts(@, IF FirstRaising(@) = 0 THEN Len(@)
                      ELSE FirstRaising(@) - 1)]

\* process_requirement: the workflow is started on initial_state.
ProcessRequirement ==
  /\ state.node = "none"
  /\ \E priority \in RequirementPriorities : state' = InitialState(priority)
  /\ UNCHANGED <<processing_results, allocatorVars>>

\* _fetch_org_data
FetchOrgData ==
  /\ state.node = "fetch_org_data"
  /\ \/ \E employees \in OrgRosters :
          state' = Goto([state EXCEPT !.org_data = "document",
                                      !.employees = employees],
                        "analyze_complexity")
     \/ state' = Goto(Fail(state, "Org data fetch error"),
                      "analyze_complexity")
  /\ UNCHANGED <<processing_results, allocatorVars>>

\* _route_based_on_complexity
Route(st) ==
  IF st.task_complexity = "simple" THEN "simple_task_handler"
  ELSE "product_manager"

\* _analyze_complexity and the conditional edge
AnalyzeComplexity ==
  /\ state.node = "analyze_complexity"
  /\ \E outcome \in Outcomes :
       LET after ==
             IF outcome = "success"
             THEN { [state EXCEPT !.task_complexity = c.classification,
                                  !.classification_details = c] :
                      c \in Classifications }
             ELSE { [Note(state, IF outcome = "failed"
                                 THEN "Task classification error"
                                 ELSE "Complexity analysis error")
                       EXCEPT !.task_complexity = "complex",
                              !.classification_details =
                                DefaultClassification] }
       IN  \E st \in after : state' = Goto(st, Route(st))
  /\ UNCHANGED <<processing_results, allocatorVars>>

\* any(req_skill.lower() in emp_skills for req_skill in required_skills)
HasRequiredSkill(emp, required_skills) ==
  \E req \in required_skills : \E skill \in emp.skills :
    Lower(req) = Lower(skill)

\* workload_pct < 90
BelowNinetyPercent(emp) == 10 * emp.load < 9 * emp.cap

\* The employee _handle_simple_task selects among the cost-sorted
\* employees: 0 when there is none.
SelectedEmployee(employees, required_skills) ==
  LET skilled == SelectSeq(employees,
                           LAMBDA e : HasRequiredSkill(e, required_skills))
      pool == IF skilled # <<>> THEN skilled ELSE employees
      free == SelectSeq(pool, BelowNinetyPercent)
  IN  IF free # <<>> THEN free[1].id
      ELSE IF pool # <<>> THEN pool[1].id
      ELSE 0

\* The allocation _handle_simple_task builds.
SimpleAllocation(st, emp_id) ==
  LET hours == st.classification_details.estimated_hours
  IN  [employee_id |-> emp_id,
       tasks |-> << [id |-> 0, hours |-> hours,
                     priority |-> st.requirement,
                     complexity |-> "Low",
                     skills_required |->
                       st.classification_details.required_skills,
                     category |-> "Simple Task", orig |-> 0] >>,
       total_estimated_hours |-> hours]

\* _handle_simple_task
HandleSimpleTask ==
  /\ state.node = "simple_task_handler"
  /\ LET st == WithCosts(state)
         selected ==
           SelectedEmployee(SortByCost(st.employees),
                            st.classification_details.required_skills)
     IN  state' =
           Goto(IF FirstRaising(state.employees) # 0 \/ selected = 0
                THEN Fail(st, "Simple task handler error")
                ELSE [st EXCEPT !.task_allocations =
                                  << SimpleAllocation(st, selected) >>,
                                !.feature_spec = "document"],
                "send_emails")
  /\ UNCHANGED <<processing_results, allocatorVars>>

\* _run_product_manager
RunProductManager ==
  /\ state.node = "product_manager"
  /\ \E outcome \in Outcomes :
       IF outcome = "success"
       THEN \E feature_spec \in Documents :
              state' = Goto([state EXCEPT !.feature_spec = feature_spec],
                            "architect")
       ELSE state' = Goto(Fail(state, "Product Manager error"), "architect")
  /\ UNCHANGED <<processing_results, allocatorVars>>

\* if not state["feature_spec"]: return state
ArchitectSkips(st) == Falsy(st.feature_spec)

\* _run_architect
RunArchitect ==
  /\ state.node = "architect"
  /\ IF ArchitectSkips(state)
     THEN state' = Goto(state, "optimized_allocator")
     ELSE \E outcome \in Outcomes :
            IF outcome = "success"
            THEN \E architecture \in Documents :
                   state' = Goto([state EXCEPT !.architecture = architecture],
                                 "optimized_allocator")
            ELSE state' = Goto(Fail(state, "Architecture error"),
                               "optimized_allocator")
  /\ UNCHANGED <<processing_results, allocatorVars>>

\* An allocator step that never skips.
AllocatorSkipsNever(st) == FALSE

\* if not state["feature_spec"] or not state["architecture"]: return state
AllocatorSkips(st) == Falsy(st.feature_spec) \/ Falsy(st.architecture)

\* What employee_allocator.process may answer as task_allocations: nothing,
\* or one allocation of some tasks to one of the employees.
AllocatorAnswers(employees) ==
  {<<>>} \cup
  { << [employee_id |-> employees[k].id, tasks |-> ts] >> :
      k \in 1..Len(employees), ts \in ConcTaskLists \ {<<>>} }

\* _optimize_task_allocations(task_allocations, cost_efficient_employees)
OptimizeTaskAllocations(allocations, employees) ==
  IF allocations = <<>> THEN allocations
  ELSE LET all == OptimizerSort(Flatten(AnnotateAllocations(allocations)))
       IN  OptimizeAll(employees, all, Len(all))

\* _run_optimized_allocator
RunOptimizedAllocator ==
  /\ state.node = "optimized_allocator"
  /\ IF AllocatorSkips(state)
     THEN state' = Goto(state, "send_emails")
     ELSE LET st == WithCosts(state)
              cost_efficient_employees == SortByCost(st.employees)
          IN  IF FirstRaising(state.employees) # 0
              THEN state' = Goto(Fail(st, "Optimized Employee Allocator error"),
                                 "send_emails")
              ELSE \E outcome \in Outcomes :
                     IF outcome = "success"
                     THEN \E answer \in
                               AllocatorAnswers(cost_efficient_employees) :
                            state' =
                              Goto([st EXCEPT !.task_allocations =
                                      OptimizeTaskAllocations(
                                        answer, cost_efficient_employees)],
                                   "send_emails")
                     ELSE state' =
                            Goto(Fail(st, "Optimized Employee Allocator error"),
                                 "send_emails")
  /\ UNCHANGED <<processing_results, allocatorVars>>

\* The number of tasks of the allocations at the given positions.
TasksOf(allocations, positions) ==
  Len(Flatten([ a \in 1..Len(allocations) |->
                  IF a \in positions THEN allocations[a]
                  ELSE [allocations[a] EXCEPT !.tasks = <<>>] ]))

\* final_status
EmailStatus(successful_count, failed_count) ==
  IF failed_count = 0 THEN "completed"
  ELSE IF successful_count > 0 THEN "partial_failure"
  ELSE "failed"

\* _send_emails: an allocation without employee_email is passed over, a
\* message is sent for each task of the others.
SendEmails ==
  /\ state.node = "send_emails"
  /\ IF state.task_allocations = <<>>
     THEN state' = Goto([state EXCEPT !.email_results =
                                        [status |-> "no_allocations",
                                         total_emails |-> 0]],
                        "save_results")
     ELSE \/ \E with_email \in SUBSET (1..Len(state.task_allocations)) :
             \E successful_count \in
                  0..TasksOf(state.task_allocations, with_email) :
               LET total == TasksOf(state.task_allocations, with_email)
               IN  state' =
                     Goto([state EXCEPT !.email_results =
                             [status |-> EmailStatus(successful_count,
                                                     total - successful_count),
                              total_emails |-> total]],
                          "save_results")
          \/ state' = Goto([Note(state, "Email error") EXCEPT
                              !.email_results = [status |-> "failed",
                                                 total_emails |-> 0]],
                           "save_results")
  /\ UNCHANGED <<processing_results, allocatorVars>>

\* result_doc
ResultDoc(st) ==
  [feature_spec |-> st.feature_spec,
   architecture |-> st.architecture,
   task_allocations |-> st.task_allocations,
   email_results |-> st.email_results,
   success |-> st.success,
   errors |-> st.errors]

\* _save_results: insert_one(result_doc), or the handler that catches.
SaveResults ==
  /\ state.node = "save_results"
  /\ \/ /\ processing_results' = Append(processing_results, ResultDoc(state))
        /\ state' = Goto(state, "END")
     \/ /\ state' = Goto(Note(state, "Save error"), "END")
        /\ UNCHANGED processing_results
  /\ UNCHANGED allocatorVars

\* One requirement through the workflow.
NextOrch ==
  \/ ProcessRequirement
  \/ FetchOrgData
  \/ AnalyzeComplexity
  \/ HandleSimpleTask
  \/ RunProductManager
  \/ RunArchitect
  \/ RunOptimizedAllocator
  \/ SendEmails
  \/ SaveResults

InitOrch ==
  /\ db_up = TRUE
  /\ collection = <<>>
  /\ tasks = [r \in Runs |-> <<>>]
  /\ pc = [r \in Runs |-> "idle"]
  /\ InitCommon

SpecOrch == InitOrch /\ [][NextOrch]_vars

\* ------------------------------------------------------------------------
\* Named inputs: the two worked examples of the design and employee
\* records that span the cost score's table

\* An employee record with the fields the examples leave open at the
\* values the code's .get defaults give them.
EmployeeRecord(id, cap, load, skills, role) ==
  [id |-> id, cap |-> cap, load |-> load, skills |-> skills,
   seniority |-> "Mid", prefs |-> {}, perf |-> 40, role |-> role,
   status |-> "active", cost |-> <<>>]

TaskRecord(id, hours, priority, skills_required) ==
  [id |-> id, hours |-> hours, priority |-> priority,
   complexity |-> "Medium", skills_required |-> skills_required,
   category |-> "Backend", orig |-> 0]

\* Worker A (id 11): Python, capacity 40, load 0; worker B (id 12): Python
\* and React, capacity 40, load 35.  Seniority, rating and preferences are
\* open.
Scenario1Rosters ==
  { << [EmployeeRecord(11, 40, 0, {"Python"}, "developer")
          EXCEPT !.seniority = sa, !.perf = pa],
       [EmployeeRecord(12, 40, 35, {"Python", "React"}, "developer")
          EXCEPT !.seniority = sb, !.perf = pb, !.prefs = fb] >> :
      sa \in {"Junior", "Senior"}, pa \in {0, 40, 50},
      sb \in {"Junior", "Senior"}, pb \in {0, 40, 50},
      fb \in {{}, {"Backend"}} }

\* T1 (id 11): High, 10 hours, Python; T2 (id 12): Medium, 8 hours, Python.
Scenario1TaskLists ==
  { << [TaskRecord(11, 10, "high", {"Python"}) EXCEPT !.complexity = c],
       TaskRecord(12, 8, "medium", {"Python"}) >> :
      c \in {"Low", "High"} }

\* Workers A (id 21) and B (id 22) of one role and one skill set, capacity
\* 40, load 0; two tasks of 20 hours, Python, of one priority.
Scenario2Rosters ==
  { << EmployeeRecord(21, 40, 0, skills, role),
       EmployeeRecord(22, 40, 0, skills, role) >> :
      skills \in {{}, {"Python"}, {"Python", "React"}},
      role \in {"developer", "architect", "qa_engineer", "intern"} }

Scenario2TaskLists ==
  { << TaskRecord(21, 20, p, {"Python"}), TaskRecord(22, 20, p, {"Python"}) >> :
      p \in {"critical", "high", "medium", "low"} }

\* The roles of role_cost_multiplier and one it does not hold.
CostRoles ==
  {"developer", "designer", "product_manager", "architect", "qa_engineer",
   "devops_engineer", "data_scientist", "intern"}

SkillTags == <<"Python", "React", "Docker", "SQL", "Git", "HTML">>

SkillsOfSize(n) == { SkillTags[k] : k \in 1..n }

\* Records of one role: free, partly loaded and loaded beyond capacity,
\* with no skill up to more skills than the bonus counts.
CostWorkers(id, role) ==
  { EmployeeRecord(id, cap, load, SkillsOfSize(n), role) :
      cap \in {4, 5}, load \in {0, 3, 6}, n \in {0, 1, 4, 5, 6} }

\* Two records of the same role and capacity.
CostRosters ==
  UNION { { q \in { <<a, b>> : a \in CostWorkers(31, role),
                                 b \in CostWorkers(32, role) } :
              q[1].cap = q[2].cap }
          : role \in CostRoles }

CostTaskLists == { <<>>, << TaskRecord(31, 2, "high", {"Python"}) >> }

\* An empty collection, one whose only document is inactive, one with an
\* employee of capacity 0, and one with an employee loaded to nine tenths
\* of the capacity.
CornerRosters ==
  { <<>>, << EmployeeRecord(41, 10, 9, {"Python"}, "developer") >> }
    \cup { <<w>> : w \in { v \in WorkerPool : v.id \in {5, 7} } }

\* A designer with 5 hours free (cost 0.7) and a developer with 3 hours
\* free (cost 0.6); a task only the designer can hold and a task both can.
BonusRosters ==
  { << EmployeeRecord(51, 10, 5, {}, "designer"),
       EmployeeRecord(52, 10, 7, {"Python"}, "developer") >> }

BonusTaskLists ==
  { << TaskRecord(51, 4, "high", {"Python"}),
       TaskRecord(52, 1, "medium", {"Python"}) >> }

CaseInputs ==
  (Scenario1Rosters \X Scenario1TaskLists)
    \cup (Scenario2Rosters \X Scenario2TaskLists)
    \cup (CostRosters \X CostTaskLists)
    \cup (CornerRosters \X CostTaskLists)
    \cup (BonusRosters \X BonusTaskLists)

\* One run on one of the named inputs.
InitCases ==
  /\ \E input \in CaseInputs :
       /\ \/ db_up = TRUE /\ collection = input[1]
          \/ db_up = FALSE /\ collection = <<>>
       /\ tasks = [r \in Runs |-> IF r = 1 THEN input[2] ELSE <<>>]
  /\ pc = [r \in Runs |-> IF r = 1 THEN "start" ELSE "idle"]
  /\ InitCommon

SpecCases == InitCases /\ [][Next]_vars

\* ------------------------------------------------------------------------
\* Claims

Past(r, places) == pc[r] \in places

AfterMatcher == {"matched", "m_failed", "optimize", "opt_failed", "done"}

\* The record of an employee id in the roster a run fetched.
Worker(r, emp_id) ==
  roster[r][CHOOSE k \in 1..Len(roster[r]) : roster[r][k].id = emp_id]

InRoster(r, emp_id) ==
  \E k \in 1..Len(roster[r]) : roster[r][k].id = emp_id

\* Every entry of a set of assignments holds at most the hours its worker
\* had free when the run started.
WithinCapacity(r, assignments) ==
  \A a \in 1..Len(assignments) :
    /\ InRoster(r, assignments[a].employee_id)
    /\ SumHours(assignments[a].tasks)
         <= Worker(r, assignments[a].employee_id).cap
              - Worker(r, assignments[a].employee_id).load

\* C1: after every assignment step of the optimizer and in its final
\* output, the hours of the tasks a worker holds are at most the worker's
\* capacity minus the workload it had when the run started.
C1_HardCapacity ==
  \A r \in Runs :
    /\ pc[r] = "optimize" => WithinCapacity(r, assign[AssignmentsOf(r)])
    /\ pc[r] = "done" => WithinCapacity(r, optimized[r])

\* C1's case: a finished optimizer run that filled a worker who started
\* with hours of its own exactly to its capacity, and left a task out.
C1_Witness ==
  \E r \in Runs :
    /\ pc[r] = "done"
    /\ Len(Flatten(optimized[r])) < Len(all_tasks[r])
    /\ \E a \in 1..Len(optimized[r]) :
         /\ Worker(r, optimized[r][a].employee_id).load > 0
         /\ SumHours(optimized[r][a].tasks)
              = Worker(r, optimized[r][a].employee_id).cap
                  - Worker(r, optimized[r][a].employee_id).load

\* How many allocations of a list hold a task of this id.
HoldersOf(allocations, task_id) ==
  Cardinality({ <<a, k>> \in (1..Len(allocations)) \X (1..MaxTasks) :
                  /\ k <= Len(allocations[a].tasks)
                  /\ allocations[a].tasks[k].id = task_id })

\* What _optimize_task_allocations hands its caller besides the list
\* `optimized`: nothing, so no task is reported as left out.
OptimizerUnallocated(r) == <<>>

\* C2: every task given to the optimizer is in exactly one worker's final
\* allocation or is reported to the caller as unallocated.
C2_NoTaskLost ==
  \A r \in Runs :
    (pc[r] = "done" /\ src[r] # "none") =>
      \A k \in 1..Len(all_tasks[r]) :
        \/ HoldersOf(optimized[r], all_tasks[r][k].id) = 1
        \/ \E u \in 1..Len(OptimizerUnallocated(r)) :
             OptimizerUnallocated(r)[u].id = all_tasks[r][k].id

\* How often a task id occurs in the matcher's two outputs.
TimesAllocated(result, task_id) ==
  Cardinality({ a \in 1..Len(result.allocations) :
                  result.allocations[a].task_id = task_id })

TimesUnallocated(result, task_id) ==
  Cardinality({ u \in 1..Len(result.unallocated_tasks) :
                  result.unallocated_tasks[u].id = task_id })

\* C3: with a roster that is not empty the matcher completes, and every
\* input task is in exactly one of its two outputs: one allocation record
\* or the unallocated list.
C3_MatcherPartition ==
  \A r \in Runs :
    (roster[r] # <<>> /\ Past(r, AfterMatcher)) =>
      /\ mres[r].status = "completed"
      /\ Len(mres[r].allocations) + Len(mres[r].unallocated_tasks)
           = Len(tasks[r])
      /\ \A k \in 1..Len(tasks[r]) :
           TimesAllocated(mres[r], tasks[r][k].id)
             + TimesUnallocated(mres[r], tasks[r][k].id) = 1

\* C3's case: a completed matcher run with a task in each output.
C3_Witness ==
  \E r \in Runs :
    /\ pc[r] = "matched"
    /\ mres[r].allocations # <<>>
    /\ mres[r].unallocated_tasks # <<>>

\* The workers a list of matcher allocation records names.
MatcherWorkers(allocations) ==
  { allocations[a].employee_id : a \in 1..Len(allocations) }

\* C4: the optimizer's output names no more workers than the matcher's
\* output it was handed.
C4_Consolidation ==
  \A r \in Runs :
    (pc[r] = "done" /\ src[r] = "matcher") =>
      Len(optimized[r]) <= Cardinality(MatcherWorkers(mres[r].allocations))

\* The collection as it was before any run seeded it: the sample records
\* enter it by seeding only.
InitialCollection ==
  IF collection # <<>> /\ collection[1].id = SampleEmployees[1].id THEN <<>>
  ELSE collection

\* What get_available_employees returns to a run that is alone.
AvailableAlone ==
  IF ~ db_up THEN FallbackEmployees
  ELSE IF InitialCollection = <<>>
       THEN ActiveEmployees(InitialCollection \o SampleEmployees)
       ELSE ActiveEmployees(InitialCollection)

\* What a run alone makes of the first k of its sorted tasks.
MatcherAlone(r, k) ==
  MatchAll([employees |-> AvailableAlone,
            workloads |-> InitialWorkloads(AvailableAlone),
            allocations |-> <<>>, unallocated |-> <<>>],
           MatcherSort(tasks[r]), k, started[r])

\* What the optimizer, alone, makes of the first k of the tasks it sorts,
\* handed the allocations of the source the run took.
SuppliedAlone(r) ==
  IF src[r] = "matcher"
  THEN GroupByEmployee(MatcherAlone(r, Len(tasks[r])).allocations, tasks[r])
  ELSE AgentAllocations(tasks[r], AvailableAlone)

OptimizerAlone(r, k) ==
  OptimizeAll(SortByCost(AnnotateCosts(AvailableAlone, Len(AvailableAlone))),
              OptimizerSort(Flatten(AnnotateAllocations(SuppliedAlone(r)))),
              k)

\* C5: in any interleaving of two runs over the same collection, each
\* run's ledger, allocations and unallocated list are at every step what
\* the run makes of them alone, and so are the lists it returns and the
\* optimizer's assignments.
C5_RunIsolation ==
  \A r \in Runs :
    /\ pc[r] = "match" =>
         LET alone == MatcherAlone(r, i[r] - 1)
         IN  /\ ledger[LedgerOf(r)] = alone.workloads
             /\ allocs[r] = alone.allocations
             /\ unalloc[r] = alone.unallocated
    /\ Past(r, AfterMatcher) =>
         IF AvailableAlone = <<>> THEN mres[r].status = "failed"
         ELSE LET alone == MatcherAlone(r, Len(tasks[r]))
              IN  /\ mres[r].status = "completed"
                  /\ mres[r].allocations = alone.allocations
                  /\ mres[r].unallocated_tasks = alone.unallocated
    /\ pc[r] = "optimize" =>
         assign[AssignmentsOf(r)] = OptimizerAlone(r, j[r] - 1)
    /\ (pc[r] = "done" /\ src[r] # "none") =>
         optimized[r] = OptimizerAlone(r, Len(all_tasks[r]))

\* C5's case: one run has assigned hours to a worker and is still in its
\* loop while the other run, in its own loop, has the same worker at the
\* hours the roster gives it.
C5_Witness ==
  \E r, q \in Runs :
    /\ r # q
    /\ pc[r] = "match" /\ pc[q] = "match"
    /\ i[q] <= Len(sorted[q])
    /\ \E k \in 1..Len(roster[r]) :
         /\ InRoster(q, roster[r][k].id)
         /\ ledger[LedgerOf(r)][roster[r][k].id] > roster[r][k].load
         /\ ledger[LedgerOf(q)][roster[r][k].id] = roster[r][k].load

\* C6: through a whole run, a run that fails midway included, every worker
\* record keeps the currentWorkloadHours and the capacity the roster gave
\* it; the hours assigned are in the run's ledger and assignments only.
C6_SnapshotKept ==
  \A r \in Runs :
    /\ emps[r] # <<>> => Len(emps[r]) = Len(roster[r])
    /\ \A k \in 1..Len(emps[r]) :
         /\ emps[r][k].id = roster[r][k].id
         /\ emps[r][k].load = roster[r][k].load
         /\ emps[r][k].cap = roster[r][k].cap
    /\ \A k \in 1..Len(cemps[r]) :
         /\ InRoster(r, cemps[r][k].id)
         /\ cemps[r][k].load = Worker(r, cemps[r][k].id).load
         /\ cemps[r][k].cap = Worker(r, cemps[r][k].id).cap
    /\ db_up =>
         \A k \in 1..Len(roster[r]) :
           \E d \in 1..Len(collection) : collection[d] = roster[r][k]

\* C6's case: a run that assigned hours in the matcher and then failed in
\* the cost loop, after that loop had written to a record.
C6_Witness ==
  \E r \in Runs :
    /\ pc[r] = "opt_failed"
    /\ allocs[r] # <<>>
    /\ \E k \in 1..Len(emps[r]) : emps[r][k].cost # <<>>
    /\ \E k \in 1..Len(roster[r]) :
         ledger[LedgerOf(r)][roster[r][k].id] > roster[r][k].load

\* C7: after a run every worker record and every task record supplied to
\* it equals its value at the start of the run.
C7_InputsReadOnly ==
  \A r \in Runs :
    (pc[r] = "done" /\ src[r] # "none") =>
      /\ emps[r] = roster[r]
      /\ initial[r] \in {<<>>, Supplied(src[r], r)}

\* The input task of an id.
TaskOf(r, task_id) ==
  tasks[r][CHOOSE k \in 1..Len(tasks[r]) : tasks[r][k].id = task_id]

\* Every allocation record carries the score of its worker for its task,
\* and that score is above 0.3.
ScoresAboveThreshold ==
  \A r \in Runs : \A a \in 1..Len(allocs[r]) :
    LET rec == allocs[r][a]
    IN  /\ InRoster(r, rec.employee_id)
        /\ rec.allocation_score
             = AllocationScore(Worker(r, rec.employee_id),
                               TaskOf(r, rec.task_id))
        /\ 10 * rec.allocation_score[1] > 3 * rec.allocation_score[2]

\* A pass of the matcher's loop over a task none of whose eligible workers
\* scores above 0.3 puts the task in the unallocated list.
LowScoreUnallocated ==
  \A r \in Runs :
    (pc[r] = "match" /\ i'[r] = i[r] + 1) =>
      LET task == sorted[r][i[r]]
          eligible ==
            { k \in 1..Len(roster[r]) :
                2 * (roster[r][k].cap
                       - ledger[LedgerOf(r)][roster[r][k].id])
                  >= task.hours }
      IN  (\A k \in eligible :
             LET score == AllocationScore(roster[r][k], task)
             IN  10 * score[1] <= 3 * score[2])
          => /\ unalloc'[r] = Append(unalloc[r], task)
             /\ allocs'[r] = allocs[r]

MatcherOutcome(result) ==
  [assignment |->
     [ a \in 1..Len(result.allocations) |->
         <<result.allocations[a].task_id, result.allocations[a].employee_id>> ],
   unallocated |-> result.unallocated_tasks,
   utilization |-> result.employee_utilization,
   status |-> result.status]

\* C9: two matcher runs on the same roster and the same task list give
\* the same worker for every allocated task, the same allocation order,
\* the same unallocated list and the same utilization report.
C9_MatcherDeterminism ==
  \A r, q \in Runs :
    (/\ Past(r, AfterMatcher) /\ Past(q, AfterMatcher)
     /\ roster[r] = roster[q] /\ tasks[r] = tasks[q])
      => MatcherOutcome(mres[r]) = MatcherOutcome(mres[q])

\* C9's case: two completed runs on the same tasks, run at different
\* times, with allocated and unallocated tasks; their records differ in
\* the start date only.
C9_Witness ==
  /\ \A r \in Runs : Past(r, AfterMatcher)
  /\ roster[1] = roster[2]
  /\ tasks[1] = tasks[2]
  /\ mres[1].allocations # <<>>
  /\ mres[1].unallocated_tasks # <<>>
  /\ mres[1].allocations # mres[2].allocations

\* C10: a run that finds the worker roster empty (no employee record, or
\* none that is not inactive) ends in the no-employees error and returns
\* no allocations and no utilization report, whatever the tasks.
C10_EmptyRosterFatal ==
  \A r \in Runs :
    (Past(r, AfterMatcher) /\ (employee_count[r] = 0 \/ roster[r] = <<>>)) =>
      /\ pc[r] = "m_failed"
      /\ mres[r].status = "failed"
      /\ mres[r].error = NoEmployeesError
      /\ mres[r].keys \cap {"allocations", "unallocated_tasks",
                            "employee_utilization"} = {}
      /\ allocs[r] = <<>>

\* C11: the score of an allocation is 0.5 * skill match + 0.3 * availability
\* + 0.2 * rating / 5 with the availability taken from the worker's ledger
\* load of the run, max(0, capacity - ledger load) / capacity and 0 for a
\* capacity of 0; the ledger load of the last allocation's pass is the
\* worker's entry less the hours that pass added.
C11_ScoreFromLedger ==
  \A r \in Runs :
    (Past(r, {"match", "matched"}) /\ allocs[r] # <<>>) =>
      LET rec == allocs[r][Len(allocs[r])]
          employee == Worker(r, rec.employee_id)
          task == TaskOf(r, rec.task_id)
          ledger_load ==
            ledger[LedgerOf(r)][rec.employee_id] - rec.estimated_hours
          sm == SkillMatch(employee, task)
          av == IF employee.cap > 0
                THEN <<Max(0, employee.cap - ledger_load), employee.cap>>
                ELSE <<0, 1>>
      IN  rec.allocation_score =
            Reduce(<<125 * sm[1] * av[2] + 75 * av[1] * sm[2]
                       + employee.perf * sm[2] * av[2],
                     250 * sm[2] * av[2]>>)

\* A run on the first worked example: the roster [A, B], the tasks [T1, T2].
InScenario1(r) ==
  roster[r] \in Scenario1Rosters /\ tasks[r] \in Scenario1TaskLists

\* C12: on the first worked example the matcher completes with T1 and then
\* T2 allocated to worker A and with no unallocated task.
C12_Scenario1Outcome ==
  \A r \in Runs :
    (Past(r, AfterMatcher) /\ InScenario1(r)) =>
      /\ mres[r].status = "completed"
      /\ MatcherOutcome(mres[r]).assignment = << <<11, 11>>, <<12, 11>> >>
      /\ mres[r].unallocated_tasks = <<>>

\* C12's case: the matcher has returned on the example in which worker B
\* has the higher rating, the seniority and the preference for the tasks'
\* category.
C12_Witness ==
  \E r \in Runs :
    /\ pc[r] = "matched"
    /\ InScenario1(r)
    /\ roster[r][1].perf = 0 /\ roster[r][1].seniority = "Junior"
    /\ roster[r][2].perf = 50 /\ roster[r][2].seniority = "Senior"
    /\ roster[r][2].prefs = {"Backend"}
    /\ Len(mres[r].allocations) = 2

\* A pass of the task loop of a run on the first worked example is about
\* to begin.
Scenario1Pass(r) ==
  InScenario1(r) /\ pc[r] = "match" /\ i[r] <= Len(sorted[r])

\* Worker B passes the capacity check of the pass that is about to begin.
BIsCandidate(r) ==
  HasCapacity(roster[r][2], ledger[LedgerOf(r)][12], sorted[r][i[r]])

\* C13 as stated: on the first worked example worker B, with 5 hours
\* left, fails the capacity check for T1 and for T2 and is a candidate
\* for neither.
C13_BNeverCandidate ==
  \A r \in Runs : Scenario1Pass(r) => ~ BIsCandidate(r)

\* C13: on the first worked example worker B keeps 5 hours free through
\* the run and passes the capacity check for T1 (5 is not less than half
\* of 10) and for T2 (5 is not less than half of 8); B is a candidate for
\* both tasks, scores lower than worker A for both and is allocated
\* neither.
C13_BCandidateOutscored ==
  \A r \in Runs :
    /\ Scenario1Pass(r) =>
         /\ roster[r][2].cap - ledger[LedgerOf(r)][12] = 5
         /\ BIsCandidate(r)
         /\ FracGt(AllocationScore(roster[r][1], sorted[r][i[r]]),
                   AllocationScore(roster[r][2], sorted[r][i[r]]))
    /\ (InScenario1(r) /\ Past(r, {"match", "matched"})) =>
         \A a \in 1..Len(allocs[r]) : allocs[r][a].employee_id # 12

\* C13's case: the pass for T2 is about to begin, T1 has gone to worker A,
\* and worker B, with the higher rating, has exactly the half of T1's
\* hours free.
C13_Witness ==
  \E r \in Runs :
    /\ Scenario1Pass(r)
    /\ i[r] = 2
    /\ sorted[r][2].id = 12
    /\ Len(allocs[r]) = 1
    /\ allocs[r][1].employee_id = 11
    /\ roster[r][2].perf > roster[r][1].perf
    /\ 2 * (roster[r][2].cap - ledger[LedgerOf(r)][12]) = sorted[r][1].hours

\* A run on the second worked example: two free workers of capacity 40,
\* two tasks of 20 hours.
InScenario2(r) ==
  roster[r] \in Scenario2Rosters /\ tasks[r] \in Scenario2TaskLists

\* C14: on the second worked example the optimizer returns exactly one
\* allocation, and it holds both tasks and 40 hours.
C14_Scenario2Consolidated ==
  \A r \in Runs :
    (pc[r] = "done" /\ InScenario2(r)) =>
      /\ Len(optimized[r]) = 1
      /\ Len(optimized[r][1].tasks) = 2
      /\ { optimized[r][1].tasks[k].id : k \in 1..2 } = {21, 22}
      /\ optimized[r][1].total_estimated_hours = 40

\* C14's case: the optimizer has returned on the example, handed the two
\* tasks by the matcher, and worker A holds them.
C14_Witness ==
  \E r \in Runs :
    /\ pc[r] = "done"
    /\ InScenario2(r)
    /\ src[r] = "matcher"
    /\ Len(all_tasks[r]) = 2
    /\ Len(optimized[r]) = 1
    /\ optimized[r][1].employee_id = 21

\* C15: every employee record of capacity above 0 that has been given its
\* cost score has max(0.1, multiplier - (100 - workload percent) / 100
\* - min(skills / 10, 0.5)), the workload percent being 100 * workload /
\* capacity and the multiplier 1.0 for a role the table does not hold.
C15_CostFormula ==
  \A r \in Runs : \A k \in 1..Len(emps[r]) :
    LET emp == emps[r][k]
        multiplier ==
          IF emp.role \in CostRoles \ {"intern"}
          THEN RoleCostMultiplier(emp.role) ELSE 10
        claimed ==
          multiplier * emp.cap - 10 * (emp.cap - emp.load)
            - Min(Cardinality(emp.skills), 5) * emp.cap
    IN  (emp.cost # <<>> /\ emp.cap > 0) =>
          FracEq(emp.cost, <<Max(emp.cap, claimed), 10 * emp.cap>>)

\* Employee b has at least the skills and at most the workload of employee
\* a, with the same role and capacity.
NoWorseOff(a, b) ==
  /\ a.role = b.role
  /\ a.cap = b.cap
  /\ Cardinality(a.skills) <= Cardinality(b.skills)
  /\ a.load >= b.load

\* C16: every cost score is at least 0.1, and of two scored employees of
\* one role and capacity the one with at least as many skills and at most
\* as much workload has a score that is not higher.
C16_CostMonotone ==
  \A r \in Runs : \A k \in 1..Len(emps[r]) :
    emps[r][k].cost # <<>> =>
      /\ ~ FracGt(<<1, 10>>, emps[r][k].cost)
      /\ \A q \in 1..Len(emps[r]) :
           (emps[r][q].cost # <<>> /\ NoWorseOff(emps[r][k], emps[r][q]))
             => ~ FracGt(emps[r][q].cost, emps[r][k].cost)

\* C16's case: two scored employees of one role, the second with more
\* skills and less workload than the first; the second is strictly
\* cheaper and sits on the floor of 0.1.
C16_Witness ==
  \E r \in Runs :
    /\ Len(emps[r]) = 2
    /\ emps[r][1].cost # <<>> /\ emps[r][2].cost # <<>>
    /\ NoWorseOff(emps[r][1], emps[r][2])
    /\ Cardinality(emps[r][1].skills) < Cardinality(emps[r][2].skills)
    /\ emps[r][1].load > emps[r][2].load
    /\ FracGt(emps[r][1].cost, emps[r][2].cost)
    /\ FracEq(emps[r][2].cost, <<1, 10>>)

\* The ordinals of seniority and complexity.
Ordinal(level) ==
  CASE level \in {"Junior", "Low"} -> 1
    [] level \in {"Mid", "Medium"} -> 2
    [] level \in {"Senior", "High"} -> 3

\* Two tags are the same but for case.
SameTag(a, b) == Lower(a) = Lower(b)

\* C17: for every worker of the roster and every task of the run the
\* skill match lies in [0, 1]; it is 0.5 for a task without required
\* skills, and otherwise the smaller of 1 and the share of the required
\* skills the worker has, tags compared without case, plus 0.10 if the
\* seniority is at least the complexity, plus 0.15 if the category is
\* among the preferences.
C17_SkillMatch ==
  \A r \in Runs : \A k \in 1..Len(roster[r]) : \A t \in 1..Len(tasks[r]) :
    LET employee == roster[r][k]
        task == tasks[r][t]
        sm == SkillMatch(employee, task)
        required == task.skills_required
        had == { s \in required : \E e \in employee.skills : SameTag(e, s) }
        hundredths ==
          100 * Cardinality(had)
            + (IF Ordinal(employee.seniority) >= Ordinal(task.complexity)
               THEN 10 ELSE 0) * Cardinality(required)
            + (IF \E p \in employee.prefs : SameTag(p, task.category)
               THEN 15 ELSE 0) * Cardinality(required)
    IN  /\ sm[1] >= 0 /\ sm[1] <= sm[2]
        /\ required = {} => FracEq(sm, <<1, 2>>)
        /\ required # {} =>
             FracEq(sm, <<Min(hundredths, 100 * Cardinality(required)),
                          100 * Cardinality(required)>>)

\* C17's case: a completed matcher run with a task without required
\* skills and a task whose skill and category the worker holds under
\* another spelling, so that the sum with both bonuses is cut to 1.
C17_Witness ==
  \E r \in Runs :
    /\ pc[r] = "matched"
    /\ \E t \in 1..Len(tasks[r]) : tasks[r][t].skills_required = {}
    /\ \E k \in 1..Len(roster[r]) : \E t \in 1..Len(tasks[r]) :
         /\ tasks[r][t].skills_required # {}
         /\ roster[r][k].skills \cap tasks[r][t].skills_required = {}
         /\ tasks[r][t].category \notin roster[r][k].prefs
         /\ FracEq(SkillMatch(roster[r][k], tasks[r][t]), <<1, 1>>)

\* C18: the utilization report of a completed run has one entry per worker
\* of the roster, in roster order; a worker of capacity above 0 is
\* overloaded exactly when its final ledger load exceeds the capacity and
\* fully utilized exactly when the load is above nine tenths of the
\* capacity and not above the capacity; every other worker, and every
\* worker of capacity 0, is available.
C18_UtilizationReport ==
  \A r \in Runs :
    (Past(r, AfterMatcher) /\ mres[r].status = "completed") =>
      LET report == mres[r].employee_utilization
      IN  /\ Len(report) = Len(roster[r])
          /\ \A k \in 1..Len(report) :
               LET cap == roster[r][k].cap
                   load == ledger[LedgerOf(r)][roster[r][k].id]
               IN  /\ report[k].employee_id = roster[r][k].id
                   /\ report[k].status
                        \in {"overloaded", "fully_utilized", "available"}
                   /\ report[k].status = "overloaded"
                        <=> (cap > 0 /\ load > cap)
                   /\ report[k].status = "fully_utilized"
                        <=> (cap > 0 /\ 10 * load > 9 * cap /\ load <= cap)

\* C18's case: a completed run without tasks on the worker loaded to
\* exactly nine tenths of its capacity: the report has the one entry, and
\* it is available.
C18_Witness ==
  \E r \in Runs :
    /\ pc[r] = "matched"
    /\ mres[r].status = "completed"
    /\ Len(roster[r]) = 1
    /\ 10 * ledger[LedgerOf(r)][roster[r][1].id] = 9 * roster[r][1].cap
    /\ roster[r][1].cap > 0
    /\ mres[r].employee_utilization[1].status = "available"

\* The hours the worker of the run's last allocation had free in the
\* ledger when that allocation's pass began.
FreeBeforeLast(r) ==
  LET rec == allocs[r][Len(allocs[r])]
  IN  Worker(r, rec.employee_id).cap
        - (ledger[LedgerOf(r)][rec.employee_id] - rec.estimated_hours)

\* No allocation went to a worker with less than half the task's hours
\* free.
HalfHoursFree ==
  \A r \in Runs :
    (Past(r, {"match", "matched"}) /\ allocs[r] # <<>>) =>
      2 * FreeBeforeLast(r) >= allocs[r][Len(allocs[r])].estimated_hours

\* A pass over a task for which a worker with exactly half its hours free
\* scores above 0.3 allocates the task.
ExactHalfIsCandidate ==
  \A r \in Runs :
    (pc[r] = "match" /\ i'[r] = i[r] + 1) =>
      LET task == sorted[r][i[r]]
      IN  (\E k \in 1..Len(roster[r]) :
             /\ 2 * (roster[r][k].cap - ledger[LedgerOf(r)][roster[r][k].id])
                  = task.hours
             /\ FracGt(AllocationScore(roster[r][k], task), <<3, 10>>))
          => /\ Len(allocs'[r]) = Len(allocs[r]) + 1
             /\ allocs'[r][Len(allocs'[r])].task_id = task.id
             /\ unalloc'[r] = unalloc[r]

\* C19: the matcher never allocates a task to a worker whose free hours in
\* the ledger, capacity less ledger load, are less than half the task's
\* hours; a worker with exactly half the hours free is still a candidate.
C19_HalfHoursRule == []HalfHoursFree /\ [][ExactHalfIsCandidate]_vars

\* C19's case: the last allocation went to a worker that had exactly half
\* the task's hours free, and there was no other worker to take it.
C19_Witness ==
  \E r \in Runs :
    /\ Past(r, {"match", "matched"})
    /\ allocs[r] # <<>>
    /\ Len(roster[r]) = 1
    /\ 2 * FreeBeforeLast(r) = allocs[r][Len(allocs[r])].estimated_hours

\* The position of a task in the list the run was given.
InputPosition(r, task) ==
  CHOOSE k \in 1..Len(tasks[r]) : tasks[r][k].id = task.id

\* C20: the matcher's loop takes the tasks in non-increasing order of
\* (priority, complexity), with Low = 1 < Medium = 2 < High = 3 <
\* Critical = 4 on both, tasks of equal key in input order; so every
\* Critical task comes before any High task.
C20_ProcessingOrder ==
  \A r \in Runs :
    Past(r, {"match", "matched"}) =>
      \A a, b \in 1..Len(sorted[r]) :
        LET level(x) ==
              CASE x \in {"low", "Low"} -> 1
                [] x \in {"medium", "Medium"} -> 2
                [] x \in {"high", "High"} -> 3
                [] x \in {"critical", "Critical"} -> 4
            ta == sorted[r][a]
            tb == sorted[r][b]
        IN  a < b =>
              \/ level(ta.priority) > level(tb.priority)
              \/ /\ level(ta.priority) = level(tb.priority)
                 /\ level(ta.complexity) > level(tb.complexity)
              \/ /\ level(ta.priority) = level(tb.priority)
                 /\ level(ta.complexity) = level(tb.complexity)
                 /\ InputPosition(r, ta) < InputPosition(r, tb)

\* The ledger load worker k of the roster had when the pass of the run's
\* last allocation began.
LoadBeforeLast(r, k) ==
  LET rec == allocs[r][Len(allocs[r])]
      id == roster[r][k].id
  IN  IF id = rec.employee_id
      THEN ledger[LedgerOf(r)][id] - rec.estimated_hours
      ELSE ledger[LedgerOf(r)][id]

\* The workers of the roster that passed the capacity test in the pass of
\* the run's last allocation.
EligibleForLast(r) ==
  { k \in 1..Len(roster[r]) :
      2 * (roster[r][k].cap - LoadBeforeLast(r, k))
        >= allocs[r][Len(allocs[r])].estimated_hours }

C22_TieToLowestId ==
  \A r \in Runs :
    (Past(r, {"match", "matched"}) /\ allocs[r] # <<>>) =>
      LET rec == allocs[r][Len(allocs[r])]
          task == TaskOf(r, rec.task_id)
      IN  \A k \in EligibleForLast(r) :
            FracEq(AllocationScore(roster[r][k], task), rec.allocation_score)
              => rec.employee_id <= roster[r][k].id

\* The tasks an employee holds in a set of assignments.
TasksHeld(assignments, emp_id) ==
  IF Assigned(assignments, emp_id)
  THEN assignments[EntryOf(assignments, emp_id)].tasks
  ELSE <<>>

\* A pass of the optimizer's task loop that assigns its task gives it to
\* an employee that fits it and whose cost, times 0.7 if the employee held
\* an assignment before the pass, is not above that of any employee that
\* fits.
CheapestFitting ==
  \A r \in Runs :
    (pc[r] = "optimize" /\ j'[r] = j[r] + 1
       /\ assign'[AssignmentsOf(r)] # assign[AssignmentsOf(r)]) =>
      LET task == all_tasks[r][j[r]]
          before == assign[AssignmentsOf(r)]
          after == assign'[AssignmentsOf(r)]
          fits(k) ==
            SumHours(TasksHeld(before, cemps[r][k].id)) + task.hours
              <= cemps[r][k].cap - cemps[r][k].load
          adjusted(k) ==
            IF TasksHeld(before, cemps[r][k].id) # <<>>
            THEN <<7 * cemps[r][k].cost[1], 10 * cemps[r][k].cost[2]>>
            ELSE cemps[r][k].cost
      IN  \E k \in 1..Len(cemps[r]) :
            /\ fits(k)
            /\ TasksHeld(after, cemps[r][k].id)
                 = Append(TasksHeld(before, cemps[r][k].id), task)
            /\ \A q \in 1..Len(cemps[r]) :
                 fits(q) => ~ FracGt(adjusted(k), adjusted(q))

\* C23: each task the optimizer assigns goes to a worker with the lowest
\* adjusted cost among the workers that pass the hard capacity test for
\* it; the adjusted cost is the cost score times 0.7 for a worker that
\* already holds an assignment of this run and the cost score otherwise.
C23_OptimizerPicksCheapest == [][CheapestFitting]_vars

\* C23's case: a worker holds two tasks although a worker without an
\* assignment, with a strictly lower cost score, had the hours for the
\* second of them.
C23_Witness ==
  \E r \in Runs :
    /\ pc[r] \in {"optimize", "done"}
    /\ \E a \in 1..Len(assign[AssignmentsOf(r)]) :
         \E k, q \in 1..Len(cemps[r]) :
           LET entry == assign[AssignmentsOf(r)][a]
           IN  /\ Len(entry.tasks) = 2
               /\ cemps[r][k].id = entry.employee_id
               /\ ~ Assigned(assign[AssignmentsOf(r)], cemps[r][q].id)
               /\ FracGt(cemps[r][k].cost, cemps[r][q].cost)
               /\ entry.tasks[2].hours <= cemps[r][q].cap - cemps[r][q].load

\* C24: the optimizer's loop takes the tasks it was handed from the
\* highest priority to the lowest (critical, high, medium, low) and,
\* within one priority, a task of more hours before a task of fewer; no
\* task comes before a task of strictly higher priority.
C24_OptimizerOrder ==
  \A r \in Runs :
    (pc[r] \in {"optimize", "done"} /\ src[r] # "none") =>
      LET rank(p) ==
            CASE p = "critical" -> 4 [] p = "high" -> 3
              [] p = "medium" -> 2 [] p = "low" -> 1
      IN  /\ Len(all_tasks[r]) = Len(Flatten(initial[r]))
          /\ \A k \in 1..Len(all_tasks[r]) :
               \E q \in 1..Len(all_tasks[r]) :
                 Flatten(initial[r])[q] = all_tasks[r][k]
          /\ \A a, b \in 1..Len(all_tasks[r]) :
               a < b =>
                 \/ rank(all_tasks[r][a].priority)
                      > rank(all_tasks[r][b].priority)
                 \/ /\ all_tasks[r][a].priority = all_tasks[r][b].priority
                    /\ all_tasks[r][a].hours >= all_tasks[r][b].hours

\* C24's case: the optimizer was handed three tasks with the critical one
\* last and, of two tasks of one priority, the shorter first; its loop has
\* them in the other order.
C24_Witness ==
  \E r \in Runs :
    /\ pc[r] \in {"optimize", "done"}
    /\ Len(all_tasks[r]) = 3
    /\ Flatten(initial[r])[3].priority = "critical"
    /\ all_tasks[r][1].priority = "critical"
    /\ Flatten(initial[r])[1].priority = Flatten(initial[r])[2].priority
    /\ Flatten(initial[r])[1].hours < Flatten(initial[r])[2].hours
    /\ all_tasks[r][2].id = Flatten(initial[r])[2].id

\* The ids of a list of tasks, in order.
TaskIds(list) == [ k \in 1..Len(list) |-> list[k].id ]

\* Which worker holds which tasks, in the order of the entries.
WorkerToTasks(allocations) ==
  [ a \in 1..Len(allocations) |->
      <<allocations[a].employee_id, TaskIds(allocations[a].tasks)>> ]

\* C25: two optimizer runs over the same roster that were handed the same
\* tasks in the same flattened order return the same worker-to-task
\* assignment, whichever workers the handed allocations had the tasks
\* with.
C25_OptimizerFromScratch ==
  \A r, q \in Runs :
    (/\ pc[r] = "done" /\ pc[q] = "done"
     /\ src[r] # "none" /\ src[q] # "none"
     /\ cemps[r] = cemps[q]
     /\ TaskIds(Flatten(initial[r])) = TaskIds(Flatten(initial[q])))
      => WorkerToTasks(optimized[r]) = WorkerToTasks(optimized[q])

\* C25's case: two finished runs that were handed the same tasks in the
\* same order, a task being with different workers in the two handed
\* allocations, and that returned an assignment.
C25_Witness ==
  /\ pc[1] = "done" /\ pc[2] = "done"
  /\ cemps[1] = cemps[2]
  /\ TaskIds(Flatten(initial[1])) = TaskIds(Flatten(initial[2]))
  /\ \E k \in 1..Len(Flatten(initial[1])) :
       Flatten(initial[1])[k].orig # Flatten(initial[2])[k].orig
  /\ optimized[1] # <<>>

\* The hours of the allocation records of one employee.
RECURSIVE HoursAllocatedTo(_, _)
HoursAllocatedTo(allocations, emp_id) ==
  IF allocations = <<>> THEN 0
  ELSE (IF allocations[1].employee_id = emp_id
        THEN allocations[1].estimated_hours ELSE 0)
         + HoursAllocatedTo(Tail(allocations), emp_id)

\* Every ledger entry is the worker's workload at run start plus the hours
\* allocated to it so far, and the report of a completed run shows it.
LedgerIsStartPlusAllocated ==
  \A r \in Runs :
    Past(r, {"match", "matched"}) =>
      \A k \in 1..Len(roster[r]) :
        /\ ledger[LedgerOf(r)][roster[r][k].id]
             = roster[r][k].load + HoursAllocatedTo(allocs[r], roster[r][k].id)
        /\ pc[r] = "matched" =>
             mres[r].employee_utilization[k].allocated_hours
               = ledger[LedgerOf(r)][roster[r][k].id]

\* A pass that leaves its task unallocated leaves the ledger as it was.
UnallocatedKeepsLedger ==
  \A r \in Runs :
    (pc[r] = "match" /\ unalloc'[r] # unalloc[r])
      => ledger'[LedgerOf(r)] = ledger[LedgerOf(r)]

\* C26: throughout a matcher run each worker's ledger load is its workload
\* at run start plus the hours of the tasks allocated to it so far; a task
\* that ends unallocated changes no ledger entry; the utilization report
\* shows the final ledger value as the worker's allocated hours.
C26_LedgerAccounting ==
  []LedgerIsStartPlusAllocated /\ [][UnallocatedKeepsLedger]_vars

\* C26's case: a completed run with an unallocated task and with a task
\* allocated to a worker that started with hours of its own.
C26_Witness ==
  \E r \in Runs :
    /\ pc[r] = "matched"
    /\ unalloc[r] # <<>>
    /\ \E k \in 1..Len(roster[r]) :
         /\ roster[r][k].load > 0
         /\ Cardinality({ a \in 1..Len(allocs[r]) :
                            allocs[r][a].employee_id = roster[r][k].id }) >= 1
         /\ mres[r].employee_utilization[k].allocated_hours
              > roster[r][k].load

\* Every entry's total is the sum of the hours of the tasks it lists.
TotalsAddUp(allocations) ==
  \A a \in 1..Len(allocations) :
    LET listed == allocations[a].tasks
    IN  allocations[a].total_estimated_hours
          = IF listed = <<>> THEN 0
            ELSE LET upto[k \in 1..Len(listed)] ==
                       IF k = 1 THEN listed[1].hours
                       ELSE upto[k - 1] + listed[k].hours
                 IN  upto[Len(listed)]

\* C27: after every assignment step of the optimizer and in its final
\* output, the total_estimated_hours of every allocation record is the sum
\* of the hours of exactly the tasks the record lists.
C27_AllocationTotal ==
  \A r \in Runs :
    /\ pc[r] = "optimize" => TotalsAddUp(assign[AssignmentsOf(r)])
    /\ pc[r] = "done" => TotalsAddUp(optimized[r])

\* C27's case: a finished optimizer run with two allocation records, one
\* of them listing two tasks of different hours.
C27_Witness ==
  \E r \in Runs :
    /\ pc[r] = "done"
    /\ Len(optimized[r]) = 2
    /\ \E a \in 1..2 :
         /\ Len(optimized[r][a].tasks) = 2
         /\ optimized[r][a].tasks[1].hours # optimized[r][a].tasks[2].hours
         /\ optimized[r][a].total_estimated_hours
              = optimized[r][a].tasks[1].hours + optimized[r][a].tasks[2].hours

\* A list of allocation records over the tasks handed to a run: every
\* listed task was handed in, no handed task is listed twice, no two
\* records are of one worker, no record lists nothing.
SubPartition(r, allocations) ==
  LET handed == Flatten(initial[r])
      places == { <<a, k>> \in (1..Len(allocations)) \X (1..Len(handed)) :
                    k <= Len(allocations[a].tasks) }
  IN  /\ \A a \in 1..Len(allocations) :
           /\ allocations[a].tasks # <<>>
           /\ Len(allocations[a].tasks) <= Len(handed)
           /\ \A k \in 1..Len(allocations[a].tasks) :
                \E h \in 1..Len(handed) : handed[h] = allocations[a].tasks[k]
      /\ \A p, q \in places :
           allocations[p[1]].tasks[p[2]].id = allocations[q[1]].tasks[q[2]].id
             => p = q
      /\ \A a, b \in 1..Len(allocations) :
           allocations[a].employee_id = allocations[b].employee_id => a = b

\* C28: the optimizer's assignments, after every step and as returned,
\* list only tasks that were handed to it, list no task twice, within a
\* record or across records, have at most one record per worker and no
\* record without a task.
C28_OutputSubPartition ==
  \A r \in Runs :
    /\ pc[r] = "optimize" => SubPartition(r, assign[AssignmentsOf(r)])
    /\ (pc[r] = "done" /\ src[r] # "none") => SubPartition(r, optimized[r])

\* C28's case: a finished optimizer run that was handed three tasks and
\* returned two records, one with two tasks and one with the third.
C28_Witness ==
  \E r \in Runs :
    /\ pc[r] = "done"
    /\ Len(Flatten(initial[r])) = 3
    /\ Len(optimized[r]) = 2
    /\ Len(Flatten(optimized[r])) = 3
    /\ \E a \in 1..2 : Len(optimized[r][a].tasks) = 2

\* The positions of the allocation records of one worker.
RecordsOf(r, emp_id) ==
  { a \in 1..Len(allocs[r]) : allocs[r][a].employee_id = emp_id }

\* The hours of the task last allocated to a worker that has a record.
LastHoursOf(r, emp_id) ==
  allocs[r][CHOOSE a \in RecordsOf(r, emp_id) :
              \A b \in RecordsOf(r, emp_id) : b <= a].estimated_hours

\* C29: a worker the matcher has allocated a task to has a ledger load of
\* at most its capacity plus half the hours of the task last allocated to
\* it, so a worker with a task that is reported overloaded is over its
\* capacity by at most that half; a worker whose workload at run start was
\* at or above its capacity is allocated no task of positive hours.
C29_OverloadBound ==
  \A r \in Runs :
    Past(r, {"match", "matched"}) =>
      \A k \in 1..Len(roster[r]) :
        LET id == roster[r][k].id
            over == ledger[LedgerOf(r)][id] - roster[r][k].cap
        IN  /\ RecordsOf(r, id) # {} => 2 * over <= LastHoursOf(r, id)
            /\ (pc[r] = "matched" /\ RecordsOf(r, id) # {}
                  /\ mres[r].employee_utilization[k].status = "overloaded")
                 => (over > 0 /\ 2 * over <= LastHoursOf(r, id))
            /\ roster[r][k].load >= roster[r][k].cap =>
                 \A a \in RecordsOf(r, id) : allocs[r][a].estimated_hours <= 0

\* C29's case: a completed run that reports a worker as overloaded, over
\* its capacity by exactly half the hours of its last task, next to a
\* worker without free hours that was given nothing.
C29_Witness ==
  \E r \in Runs :
    /\ pc[r] = "matched"
    /\ \E k, q \in 1..Len(roster[r]) :
         /\ RecordsOf(r, roster[r][k].id) # {}
         /\ mres[r].employee_utilization[k].status = "overloaded"
         /\ 2 * (ledger[LedgerOf(r)][roster[r][k].id] - roster[r][k].cap)
              = LastHoursOf(r, roster[r][k].id)
         /\ roster[r][q].load >= roster[r][q].cap
         /\ RecordsOf(r, roster[r][q].id) = {}

\* ------------------------------------------------------------------------
\* C30

\* The product-manager step or the architect step of the workflow in
\* progress has failed: its message is among state["errors"].
PlanningFailed ==
  /\ state.node # "none"
  /\ \E k \in 1..Len(state.errors) :
       state.errors[k] \in {"Product Manager error", "Architecture error"}

\* "Save error" is among state["errors"].
SaveRaised ==
  \E k \in 1..Len(state.errors) : state.errors[k] = "Save error"

\* The document _save_results inserted last.
LastSaved == processing_results[Len(processing_results)]

\* After such a failure the run's allocations are empty and its success
\* flag is false; once the email step is past it has reported
\* no_allocations without a message sent; once the run is over the result
\* document is in db.processing_results with these values, unless the
\* insertion itself raised.
AfterPlanningFailure ==
  PlanningFailed =>
    /\ state.success = FALSE
    /\ state.task_allocations = <<>>
    /\ state.node \in {"save_results", "END"} =>
         /\ state.email_results.status = "no_allocations"
         /\ state.email_results.total_emails = 0
    /\ state.node = "END" /\ ~ SaveRaised =>
         /\ processing_results # <<>>
         /\ LastSaved = ResultDoc(state)
         /\ LastSaved.success = FALSE
         /\ LastSaved.task_allocations = <<>>

\* After such a failure the allocator step does nothing but pass the state
\* on to the email step.
AllocatorSkippedAfterFailure ==
  PlanningFailed /\ state.node = "optimized_allocator" =>
    state' = Goto(state, "send_emails")

\* No step sets a false success flag back to true.
SuccessStaysFalse ==
  state.node # "none" /\ state.success = FALSE => state'.success = FALSE

\* C30: on the complex path, when the product-manager step or the architect
\* step fails, the optimized allocator step is skipped, the run's task
\* allocations stay empty, the email step sends nothing and reports
\* no_allocations, the save step still runs and stores the result document
\* (unless the insertion itself raises), and the success flag is false; and
\* no step of the workflow sets a false success flag back to true.
C30_ErrorPropagation ==
  /\ []AfterPlanningFailure
  /\ [][AllocatorSkippedAfterFailure /\ SuccessStaysFalse]_vars

\* A run in which the product manager answered, the architect failed, and
\* the run ended with no allocation, no_allocations reported, the result
\* document saved and the success flag false.
C30_Witness ==
  /\ state.node = "END"
  /\ state.task_complexity = "complex"
  /\ state.feature_spec = "document"
  /\ \E k \in 1..Len(state.errors) : state.errors[k] = "Architecture error"
  /\ state.task_allocations = <<>>
  /\ state.email_results.status = "no_allocations"
  /\ processing_results # <<>>
  /\ LastSaved.success = FALSE
  /\ state.success = FALSE

====
